---- MODULE Spec2Model ----
(***************************************************************************)
(* State-machine model of the WordPress content migration tool:            *)
(*   - the transfer orchestrator (transferContent, uploadMedia,            *)
(*     findOrCreateTerm) of the WordPress service,                         *)
(*   - the paginated fetch (getContent) and its caller fetchContent,       *)
(*   - the migration page's export handlers (single, batch, editor).       *)
(* Every remote call is one suspension point: the call is outstanding      *)
(* while the task's pc names it, and the action that delivers its          *)
(* response runs the continuation up to the next await.                    *)
(***************************************************************************)
EXTENDS Integers, Sequences, FiniteSets, Bags, TLC

\* ------------------------------------------------------------------ bounds
\* Number of content items listed on the migration page.
MaxItems == 2
\* Submissions of a connector form in one behaviour.
MaxSubmits == 3
\* Fetches (the initial load and refreshes) started in one behaviour.
MaxFetches == 2
\* Total number of item transfers started in one behaviour.
MaxTransfers == 2
\* Transfers of the single-transfer specification (one attempt and a retry).
MaxAttempts == 2
\* Largest X-WP-TotalPages the source reports.
MaxPages == 3

\* ------------------------------------------------------- program constants
\* getContent's page size.
perPage == 100

VARIABLES
    \* ---- the two sites
    source,            \* source site: item id -> the item's embedded data
    destTerms,         \* destination terms, in id order (id = position)
    destMedia,         \* number of media objects on the destination
    destContent,       \* content created on the destination, in creation order
    \* ---- MigrationPage state
    contentType,       \* 'posts' | 'pages'
    contentItems,      \* the displayed list (item ids)
    itemStatuses,      \* item id -> ItemStatus (a missing key is rendered idle)
    selectedItemIds,   \* the selection, a JS Set: insertion ordered, no duplicates
    isBulkExporting,
    skipImageTransfer,
    editingItem,       \* 0 = null
    modalStatus,       \* ContentEditorModal's own status
    isLoading,
    isRefreshing,
    error,             \* MigrationPage's error banner (<<>> = null)
    \* ---- control state of the asynchronous handlers
    tasks,             \* bag of export tasks (handleExportItem / editor export)
    bulk,              \* the running handleBulkExport loop
    fetches,           \* bag of fetchContent/getContent calls
    progress,          \* loadingProgress (<<>> = null)
    connector,         \* a WordPressConnector form and its validateConnection call
    \* ---- environment and bookkeeping
    nStarted,          \* transfers started so far
    nFetches,          \* fetches started so far
    startLimit,        \* how many transfers this behaviour may start
    faults,            \* the ways a remote call may fail in this behaviour
    audit,             \* settled tasks are kept, with their call log
    sourceConfig,      \* the connected source site, or null
    destConfig,        \* the connected destination site, or null
    sourceHistory,     \* the source connections made, most recent first
    destHistory,       \* the destination connections made, most recent first
    searchTerm,        \* the search box's text, a sequence of characters
    request            \* one request of the transport helper, on its own

vars == <<source, destTerms, destMedia, destContent, contentType, contentItems,
          itemStatuses, selectedItemIds, isBulkExporting, skipImageTransfer,
          editingItem, modalStatus, isLoading, isRefreshing, error, tasks,
          bulk, fetches, progress, connector, nStarted, nFetches, startLimit,
          faults, audit, sourceConfig, destConfig, searchTerm,
                   sourceHistory, destHistory, request>>

siteVars  == <<source, destTerms, destMedia, destContent>>
fetchVars == <<fetches, progress, isLoading, isRefreshing, error, contentItems,
               nFetches>>

\* ----------------------------------------------------------------- helpers
Items == 1..MaxItems

Range(s) == {s[i] : i \in 1..Len(s)}

SeqOf(f, s) == [i \in 1..Len(s) |-> f[s[i]]]

RECURSIVE SelectSeq2(_, _)
\* The subsequence of s whose elements are in set S (order kept).
SelectSeq2(s, S) ==
    IF s = <<>> THEN <<>>
    ELSE IF Head(s) \in S THEN <<Head(s)>> \o SelectSeq2(Tail(s), S)
    ELSE SelectSeq2(Tail(s), S)

IsPrefix(p, s) == Len(p) <= Len(s) /\ \A i \in 1..Len(p) : p[i] = s[i]

\* Outcomes of one remote call: a 2xx response, a non-2xx response ("http"),
\* or no response at all ("net": fetch rejects).
Responses == {"ok"} \cup faults

\* ------------------------------------------------------------ data model
Posts == "posts"
Pages == "pages"
ContentTypes == {Posts, Pages}

\* WpTerm as embedded in a source item (the source-side id is never used).
Term(slug, taxonomy) == [name |-> slug, slug |-> slug, taxonomy |-> taxonomy]

\* WpContent, reduced to what the transfer reads: the featured-media embed,
\* the flattened wp:term embed, the parent reference and the status.
Content(id, media, terms, parent) ==
    [id |-> id, media |-> media, terms |-> terms, parent |-> parent,
     status |-> "publish"]

\* ItemStatus values.
Idle      == [status |-> "idle"]
Exporting == [status |-> "exporting"]
Success   == [status |-> "success"]
Failed(message) == [status |-> "error", message |-> message]

\* PostList renders statuses[item.id] || { status: 'idle' }.
StatusOf(i) == IF i \in DOMAIN itemStatuses THEN itemStatuses[i] ELSE Idle

\* { ...prev, [itemId]: st }
SetStatus(prev, i, st) == (i :> st) @@ prev

\* An error message: its text parts and the HTTP status it quotes (0 = none).
Message(text, status) == [text |-> text, status |-> status]
NoMessage == Message(<<>>, 0)

\* A WordPressConnector with an empty form: config is the connection it has
\* handed to onConnect (<<>> = none); pc names the validation request that
\* is outstanding; calls and rets are the requests validateConnection sent
\* and the responses it got in the current submission; saved is the
\* settings page's list of saved connections.
NoConnector ==
    [pc |-> "idle", isConnecting |-> FALSE, error |-> NoMessage,
     config |-> <<>>, calls |-> <<>>, rets |-> <<>>, outcome |-> "none",
     submits |-> 0, saved |-> {}]

\* ------------------------------------------------------------ export tasks
\* pc names the remote call the task is awaiting:
\*   details    getFullContentDetails
\*   download   uploadMedia: fetch of the image from the source
\*   upload     uploadMedia: POST to the destination's media endpoint
\*   lookup     findOrCreateTerm: GET ?slug=
\*   createTerm findOrCreateTerm: POST of the new term
\*   create     transferContent: POST of the content
\*   done       the handler's promise has settled
\* log is the task's call trace: <<"call", c, q>> when it issues call c as
\* request q and <<"ret", c, r>> when c returns r; resolved holds the destination id found
\* for each embedded term so far, in term order; superseded tells that a
\* later export of the same item has started since, outdated that the list
\* has been reloaded since the task started.
NewTask(item, origin, ctype, skip) ==
    [pc |-> "done", item |-> item, origin |-> origin, ctype |-> ctype,
     skip |-> skip, content |-> Content(item, FALSE, <<>>, FALSE),
     payload |-> <<>>, k |-> 0, categoryIds |-> <<>>, tagIds |-> <<>>,
     resolved |-> <<>>, log |-> <<>>, outcome |-> "none", message |-> <<>>,
     mounted |-> FALSE, superseded |-> FALSE, outdated |-> FALSE]

\* The request a call sends: the site whose URL it is built from, the
\* connection whose token is in its Authorization header ("none" when it
\* has no such header) and the connection whose proxyUrl getFinalUrl gets.
HttpRequest(site, authorization, proxy) ==
    [site |-> site, authorization |-> authorization, proxy |-> proxy]

\* Mutant: the upload goes through the source's proxy.
Sent_UploadBySourceProxy(call) ==
    IF call \in {"list", "details"}
    THEN HttpRequest("source", "source", "source")
    ELSE IF call = "download" THEN HttpRequest("source", "none", "source")
    ELSE IF call = "upload"
    THEN HttpRequest("destination", "destination", "source")
    ELSE HttpRequest("destination", "destination", "destination")

\* getContent and getFullContentDetails use the source connection; the
\* image is fetched with no header through the source's proxy; upload,
\* term lookup, term creation and content creation use the destination's.
Sent(call) ==
    IF call \in {"list", "details"}
    THEN HttpRequest("source", "source", "source")
    ELSE IF call = "download" THEN HttpRequest("source", "none", "source")
    ELSE HttpRequest("destination", "destination", "destination")

\* The task issues remote call `call` and suspends on it.
Issue(t, call) ==
    [t EXCEPT !.pc = call, !.log = Append(@, <<"call", call, Sent(call)>>)]

\* The response r of the awaited call has arrived.
Returned(t, r) == [t EXCEPT !.log = Append(@, <<"ret", t.pc, r>>)]

\* The transfer throws: wrapped with the stage's prefix where there is one.
Throw(t, message) ==
    [t EXCEPT !.pc = "done", !.outcome = "error", !.message = message]

\* transferContent returns normally.
Resolve(t) == [t EXCEPT !.pc = "done", !.outcome = "success"]

\* apiFetch's error message for a failed call: the server's message for a
\* non-2xx response, the browser's TypeError when no response arrived.
ApiFetchError(r) ==
    IF r = "net" THEN <<"Failed to fetch">> ELSE <<"server message">>

\* --- transferContent, stage 3: the content-creation call
CreationStage(t) == Issue(t, "create")

\* Mutant: the creation stage rethrows the call's error as it is.
CreationError_Unwrapped(t, r) == Throw(t, ApiFetchError(r))

CreationError(t, r) ==
    Throw(t, <<IF t.ctype = Posts THEN "post creation failed: "
               ELSE "page creation failed: ">> \o ApiFetchError(r))

\* --- transferContent, stage 2: taxonomy (posts only)
\* Mutant: both id lists are attached, empty or not.
AttachTerms_Always(t) ==
    [t EXCEPT !.payload = ("categories" :> t.categoryIds) @@
                          ("tags" :> t.tagIds) @@ t.payload]

\* After the term loop: attach the non-empty id lists, then create.
AttachTerms(t) ==
    LET p1 == IF t.categoryIds # <<>>
              THEN ("categories" :> t.categoryIds) @@ t.payload ELSE t.payload
        p2 == IF t.tagIds # <<>> THEN ("tags" :> t.tagIds) @@ p1 ELSE p1
    IN  [t EXCEPT !.payload = p2]

\* One iteration of `for (const term of terms)` has its id: push it on the
\* list of the term's kind and go on with the next term.
TermResolved(t, newTermId) ==
    LET term == t.content.terms[t.k]
        t0 == [t EXCEPT !.resolved = Append(@, newTermId)]
        t1 == IF term.taxonomy = "category"
              THEN [t0 EXCEPT !.categoryIds = Append(@, newTermId)]
              ELSE [t0 EXCEPT !.tagIds = Append(@, newTermId)]
    IN  IF t.k < Len(t.content.terms)
        THEN Issue([t1 EXCEPT !.k = t.k + 1], "lookup")
        ELSE CreationStage(AttachTerms(t1))

\* Mutant: the taxonomy stage runs for every content type.
TaxonomyStage_AnyType(t) ==
    IF t.content.terms # <<>>
    THEN Issue([t EXCEPT !.k = 1], "lookup")
    ELSE CreationStage(AttachTerms(t))

TaxonomyStage(t) ==
    IF t.ctype = Posts /\ t.content.terms # <<>>
    THEN Issue([t EXCEPT !.k = 1], "lookup")
    ELSE IF t.ctype = Posts THEN CreationStage(AttachTerms(t))
    ELSE CreationStage(t)

\* Mutant: the taxonomy stage's catch swallows the error and goes on.
TaxonomyError_Swallowed(t, r) == CreationStage(AttachTerms(t))

TaxonomyError(t, r) ==
    Throw(t, <<"Taxonomy (category/tag) transfer failed: ">> \o ApiFetchError(r))

\* findOrCreateTerm's endpoint: categories for 'category', tags otherwise.
TaxonomyEndpoint(term) ==
    IF term.taxonomy = "category" THEN "categories" ELSE "tags"

\* Mutant: the lookup by slug never finds anything.
ExistingTerms_None(term) == <<>>

\* GET {endpoint}?slug=: the ids of the destination terms of that collection
\* with that slug, in id order.
ExistingTerms(term) ==
    SelectSeq2([i \in 1..Len(destTerms) |-> i],
               {i \in 1..Len(destTerms) :
                    /\ destTerms[i].slug = term.slug
                    /\ destTerms[i].endpoint = TaxonomyEndpoint(term)})

\* --- transferContent, stage 1: featured media
\* Mutant: the media stage's catch swallows the error and goes on.
MediaError_Swallowed(t, inner) == TaxonomyStage(t)

MediaError(t, inner) == Throw(t, <<"Media transfer failed: ">> \o inner)

\* uploadMedia's message when the download fetch rejects / is non-2xx.
DownloadError(r) ==
    IF r = "net" THEN <<"Image download failed">>
    ELSE <<"Failed to download image from source">>

\* uploadMedia's catch around the upload.
UploadError(r) ==
    <<"Could not upload image to destination site. Details: ">> \o ApiFetchError(r)

\* Mutant: the skipImageTransfer option is not consulted.
MediaStage_IgnoreSkip(t) ==
    IF t.content.media THEN Issue(t, "download") ELSE TaxonomyStage(t)

MediaStage(t) ==
    IF ~t.skip /\ t.content.media THEN Issue(t, "download") ELSE TaxonomyStage(t)

\* transferContent up to its first await.
TransferContent(t, content) ==
    MediaStage([t EXCEPT !.content = content,
                         !.payload = [title |-> content.id,
                                      content |-> content.id,
                                      status |-> content.status]])

\* --- continuations: what the task does when the awaited call returns r
\* Mutant: when the details cannot be fetched the list's copy is transferred.
AfterDetails_ListCopy(t, r) == TransferContent(t, source[t.item])

\* handleExportItem after getFullContentDetails.
AfterDetails(t, r) ==
    IF r = "ok" THEN TransferContent(t, source[t.item])
    ELSE Throw(t, ApiFetchError(r))

\* Mutant: the upload is left out and the transfer goes on after the download.
AfterDownload_SkipUpload(t, r) ==
    IF r = "ok" THEN TaxonomyStage(t) ELSE MediaError(t, DownloadError(r))

\* Mutant: the blob is uploaded whatever the download came back with.
AfterDownload_AlwaysUpload(t, r) == Issue(t, "upload")

\* uploadMedia after the download: upload the blob, or throw.
AfterDownload(t, r) ==
    IF r = "ok" THEN Issue(t, "upload") ELSE MediaError(t, DownloadError(r))

\* uploadMedia after the upload; newMediaId is the id the destination gave.
AfterUpload(t, r, newMediaId) ==
    IF r = "ok"
    THEN TaxonomyStage([t EXCEPT !.payload = ("featured_media" :> newMediaId) @@ @])
    ELSE MediaError(t, UploadError(r))

\* Mutant: the last match of the lookup is taken.
AfterLookup_LastMatch(t, r) ==
    LET existingTerms == ExistingTerms(t.content.terms[t.k])
    IN  IF r # "ok" THEN TaxonomyError(t, r)
        ELSE IF Len(existingTerms) > 0
        THEN TermResolved(t, existingTerms[Len(existingTerms)])
        ELSE Issue(t, "createTerm")

\* findOrCreateTerm after the lookup by slug: first match wins, else create.
AfterLookup(t, r) ==
    LET existingTerms == ExistingTerms(t.content.terms[t.k])
    IN  IF r # "ok" THEN TaxonomyError(t, r)
        ELSE IF Len(existingTerms) > 0 THEN TermResolved(t, existingTerms[1])
        ELSE Issue(t, "createTerm")

\* findOrCreateTerm after the create call.
AfterCreateTerm(t, r, newTermId) ==
    IF r = "ok" THEN TermResolved(t, newTermId) ELSE TaxonomyError(t, r)

\* transferContent after the content-creation call.
AfterCreate(t, r) ==
    IF r = "ok" THEN Resolve(t) ELSE CreationError(t, r)

\* ----------------------------------------------------- MigrationPage handlers
\* handleBulkExport's loop state. queue is the Set captured at the click,
\* idx the number of items the loop has started; ctype and skip are the values
\* its handleExportItem closure holds. started and results record, for each
\* item the loop has started / seen settle, what happened (last is the
\* response the transfer ended on).
NoBulk == [active |-> FALSE, queue |-> <<>>, idx |-> 0, ctype |-> Posts,
           skip |-> FALSE, aborted |-> FALSE, started |-> <<>>,
           results |-> <<>>]

\* Mutant: the catch writes a fixed message instead of err.message.
Terminal_FixedMessage(t) ==
    IF t.outcome = "success" THEN Success ELSE Failed(<<"Export failed">>)

\* The status handleExportItem writes when its task settles.
Terminal(t) == IF t.outcome = "success" THEN Success ELSE Failed(t.message)

\* Mutant: handleExportItem rethrows what it caught.
ExportItemRethrows(t) == t.outcome = "error"

\* handleExportItem's promise rejects: never, its catch swallows every error.
ExportItemRejects(t) == FALSE

\* Mutant: the loop walks the captured Set from its end.
BulkItem_Reversed(queue, idx) == queue[Len(queue) - idx]

\* `for (const itemId of selectedItemIds)`: the item after position idx of
\* the Set captured at the click, in insertion order.
BulkItem(queue, idx) == queue[idx + 1]

\* handleExportItem(itemId) up to its first await.
ExportItemTask(i, origin, ctype, skip) ==
    Issue(NewTask(i, origin, ctype, skip), "details")

Put(b, t) == b (+) SetToBag({t})
Drop(b, t) == b (-) SetToBag({t})
\* A settled task leaves the bag unless the behaviour keeps an audit trail.
Keep(b, t) == IF t.pc # "done" \/ audit THEN Put(b, t) ELSE b

InFlight == {t \in BagToSet(tasks) : t.pc # "done"}

\* A new export of t's item starts: the exports of that item still running
\* are no longer its latest.
Start(b, t) ==
    Put(BagOfAll(LAMBDA u : IF u.item = t.item /\ u.pc # "done"
                            THEN [u EXCEPT !.superseded = TRUE] ELSE u, b), t)

Unmount(t) == [t EXCEPT !.mounted = FALSE]

\* The loop body after `await handleExportItem(itemId)` for settled task t2,
\* on the task bag ts and status map st: the next item, or the loop's end.
BulkContinue(ts, st, t2) ==
    LET res == Append(bulk.results,
                      [item |-> t2.item, outcome |-> t2.outcome,
                       written |-> st[t2.item].status,
                       last |-> t2.log[Len(t2.log)]])
    IN
    IF ExportItemRejects(t2) THEN
        \* the loop dies with the rejection
        /\ tasks' = ts
        /\ itemStatuses' = st
        /\ bulk' = [bulk EXCEPT !.active = FALSE, !.aborted = TRUE,
                                !.results = res]
        /\ nStarted' = nStarted
        /\ UNCHANGED <<selectedItemIds, isBulkExporting>>
    ELSE IF bulk.idx < Len(bulk.queue) THEN
        LET j == BulkItem(bulk.queue, bulk.idx) IN
        /\ tasks' = Start(ts, ExportItemTask(j, "bulk", bulk.ctype, bulk.skip))
        /\ itemStatuses' = SetStatus(st, j, Exporting)
        /\ bulk' = [bulk EXCEPT !.idx = @ + 1, !.started = Append(@, j),
                                !.results = res]
        /\ nStarted' = nStarted + 1
        /\ UNCHANGED <<selectedItemIds, isBulkExporting>>
    ELSE
        /\ tasks' = ts
        /\ itemStatuses' = st
        /\ isBulkExporting' = FALSE
        /\ selectedItemIds' = <<>>
        /\ bulk' = [bulk EXCEPT !.active = FALSE, !.results = res]
        /\ nStarted' = nStarted

\* Task t has run its continuation and is now t2; when it has settled, the
\* code after the handler's await runs in the same turn.
Settle(t, t2) ==
    LET ts == Keep(Drop(tasks, t), t2)
        st == SetStatus(itemStatuses, t2.item, Terminal(t2))
    IN
    IF t2.pc # "done" THEN
        /\ tasks' = ts
        /\ UNCHANGED <<itemStatuses, selectedItemIds, isBulkExporting, bulk,
                       editingItem, modalStatus, nStarted>>
    ELSE IF t2.origin = "single" THEN
        /\ tasks' = ts
        /\ itemStatuses' = st
        /\ UNCHANGED <<selectedItemIds, isBulkExporting, bulk, editingItem,
                       modalStatus, nStarted>>
    ELSE IF t2.origin = "bulk" THEN
        /\ BulkContinue(ts, st, t2)
        /\ UNCHANGED <<editingItem, modalStatus>>
    ELSE
        \* handleExportEditedContent, then ContentEditorModal.handleExport
        IF t2.outcome = "success" THEN
            /\ tasks' = BagOfAll(Unmount, ts)
            /\ itemStatuses' = SetStatus(itemStatuses, t2.item, Success)
            /\ editingItem' = 0
            /\ modalStatus' = "idle"
            /\ UNCHANGED <<selectedItemIds, isBulkExporting, bulk, nStarted>>
        ELSE
            /\ tasks' = ts
            /\ modalStatus' = IF t2.mounted THEN "error" ELSE modalStatus
            /\ UNCHANGED <<itemStatuses, selectedItemIds, isBulkExporting,
                           bulk, editingItem, nStarted>>

pageVars == <<contentType, skipImageTransfer, connector, startLimit, faults,
              audit, sourceConfig, destConfig, searchTerm,
                   sourceHistory, destHistory, request>>

DetailsReturn(t, r) ==
    /\ t.pc = "details"
    /\ Settle(t, AfterDetails(Returned(t, r), r))
    /\ UNCHANGED <<siteVars, fetchVars, pageVars>>

DownloadReturn(t, r) ==
    /\ t.pc = "download"
    /\ Settle(t, AfterDownload(Returned(t, r), r))
    /\ UNCHANGED <<siteVars, fetchVars, pageVars>>

UploadReturn(t, r) ==
    /\ t.pc = "upload"
    /\ destMedia' = IF r = "ok" THEN destMedia + 1 ELSE destMedia
    /\ Settle(t, AfterUpload(Returned(t, r), r, destMedia + 1))
    /\ UNCHANGED <<source, destTerms, destContent, fetchVars, pageVars>>

LookupReturn(t, r) ==
    /\ t.pc = "lookup"
    /\ Settle(t, AfterLookup(Returned(t, r), r))
    /\ UNCHANGED <<siteVars, fetchVars, pageVars>>

CreateTermReturn(t, r) ==
    /\ t.pc = "createTerm"
    /\ LET term == t.content.terms[t.k] IN
       destTerms' = IF r = "ok"
                    THEN Append(destTerms, [name |-> term.name, slug |-> term.slug,
                                            endpoint |-> TaxonomyEndpoint(term)])
                    ELSE destTerms
    /\ Settle(t, AfterCreateTerm(Returned(t, r), r, Len(destTerms) + 1))
    /\ UNCHANGED <<source, destMedia, destContent, fetchVars, pageVars>>

CreateReturn(t, r) ==
    /\ t.pc = "create"
    /\ destContent' = IF r = "ok"
                      THEN Put(destContent, [type |-> t.ctype, body |-> t.payload])
                      ELSE destContent
    /\ Settle(t, AfterCreate(Returned(t, r), r))
    /\ UNCHANGED <<source, destTerms, destMedia, fetchVars, pageVars>>

\* The list is rendered (not the spinner, not the "none found" panel).
\* A SiteConfig; the state holds null while no site is connected.
null == <<>>
SiteConfig(url, username, proxyUrl) ==
    [url |-> url, token |-> <<username, ":", "application password">>,
     username |-> username, proxyUrl |-> proxyUrl]

\* The two sites of the page specifications.
SourceSite == SiteConfig("https://source.example", "editor", "")
DestSite == SiteConfig("https://dest.example", "admin", "")

\* An item's title.rendered, one character or HTML entity per element.
Title(i) == IF i % 2 = 1 THEN <<"N", "&amp;", "a">> ELSE <<"n", "b">>

\* decodeHtml: the text a textarea shows for the markup.
DecodeHtml(html) ==
    [k \in DOMAIN html |-> IF html[k] = "&amp;" THEN "&" ELSE html[k]]

\* String.prototype.toLowerCase.
ToLowerCase(str) ==
    [k \in DOMAIN str |-> CASE str[k] = "N" -> "n"
                             [] str[k] = "A" -> "a"
                             [] str[k] = "B" -> "b"
                             [] OTHER -> str[k]]

\* String.prototype.includes.
StringIncludes(str, part) ==
    \E k \in 0..(Len(str) - Len(part)) :
        SubSeq(str, k + 1, k + Len(part)) = part

\* The rows the list shows: every item without a search term, else the
\* items whose title contains it, case ignored.
filteredContent ==
    IF searchTerm = <<>> THEN contentItems
    ELSE SelectSeq2(contentItems,
                    {i \in Range(contentItems) :
                        StringIncludes(ToLowerCase(DecodeHtml(Title(i))),
                                       ToLowerCase(searchTerm))})

\* The page renders its list only with both connections, else a prompt.
ListShown ==
    /\ sourceConfig # null /\ destConfig # null
    /\ ~isLoading /\ contentItems # <<>>

\* StatusButton: Export (idle) or Retry (error) -> handleExportItem(i).
ClickExport(i) ==
    /\ ListShown /\ i \in Range(filteredContent)
    /\ StatusOf(i).status \in {"idle", "error"}
    /\ nStarted < startLimit
    /\ nStarted' = nStarted + 1
    /\ itemStatuses' = SetStatus(itemStatuses, i, Exporting)
    /\ tasks' = Start(tasks, ExportItemTask(i, "single", contentType,
                                            skipImageTransfer))
    /\ UNCHANGED <<siteVars, fetchVars, pageVars, selectedItemIds,
                   isBulkExporting, bulk, editingItem, modalStatus>>

\* handleToggleSelection: delete the id, or add it at the end of the Set.
ToggleSelection(i) ==
    /\ ListShown /\ i \in Range(filteredContent)
    /\ selectedItemIds' = IF i \in Range(selectedItemIds)
                          THEN SelectSeq2(selectedItemIds,
                                          Range(selectedItemIds) \ {i})
                          ELSE Append(selectedItemIds, i)
    /\ UNCHANGED <<siteVars, fetchVars, pageVars, itemStatuses, tasks,
                   isBulkExporting, bulk, editingItem, modalStatus, nStarted>>

\* The search box: onSearchChange = setSearchTerm.
OnSearchChange(term) ==
    /\ ListShown
    /\ searchTerm' = term
    /\ UNCHANGED <<siteVars, fetchVars, contentType, skipImageTransfer,
                   connector, startLimit, faults, audit, sourceConfig,
                   destConfig, sourceHistory, destHistory, request,
                   itemStatuses, selectedItemIds, tasks,
                   isBulkExporting, bulk, editingItem, modalStatus, nStarted>>

\* The "Select all" checkbox: handleToggleSelectAll.
HandleToggleSelectAll ==
    /\ ListShown
    /\ selectedItemIds' = IF Len(selectedItemIds) = Len(filteredContent)
                          THEN <<>>
                          ELSE filteredContent
    /\ UNCHANGED <<siteVars, fetchVars, pageVars, itemStatuses, tasks,
                   isBulkExporting, bulk, editingItem, modalStatus, nStarted>>

\* Mutant: the "Export Selected" button is never disabled.
BulkButtonEnabled_Always == TRUE

\* The "Export Selected" button is disabled without a destination and
\* while a batch runs.
BulkButtonEnabled == destConfig # null /\ ~isBulkExporting

\* "Export Selected", rendered for a non-empty selection: handleBulkExport
\* up to its first await.
ClickBulkExport ==
    /\ ListShown
    /\ selectedItemIds # <<>> /\ BulkButtonEnabled
    /\ ~(sourceConfig = null \/ destConfig = null
           \/ Len(selectedItemIds) = 0)
    /\ nStarted + Len(selectedItemIds) <= startLimit
    /\ LET first == BulkItem(selectedItemIds, 0)
           initialStatuses == [i \in Range(selectedItemIds) |-> Exporting]
       IN  /\ isBulkExporting' = TRUE
           /\ itemStatuses' =
                  SetStatus(initialStatuses @@ itemStatuses, first, Exporting)
           /\ tasks' = Start(tasks, ExportItemTask(first, "bulk", contentType,
                                                   skipImageTransfer))
           /\ bulk' = [active |-> TRUE, queue |-> selectedItemIds, idx |-> 1,
                       ctype |-> contentType, skip |-> skipImageTransfer,
                       aborted |-> FALSE, started |-> <<first>>,
                       results |-> <<>>]
    /\ nStarted' = nStarted + 1
    /\ UNCHANGED <<siteVars, fetchVars, pageVars, selectedItemIds,
                   editingItem, modalStatus>>

\* The edit button: handleEditItem opens the editor on a listed item.
HandleEditItem(i) ==
    /\ ListShown /\ i \in Range(filteredContent)
    /\ editingItem = 0
    /\ editingItem' = i
    /\ modalStatus' = "idle"
    /\ UNCHANGED <<siteVars, fetchVars, pageVars, itemStatuses, tasks,
                   selectedItemIds, isBulkExporting, bulk, nStarted>>

\* The modal's Export button: handleExport -> handleExportEditedContent,
\* which calls transferContent on the edited list item directly.
ModalExport ==
    /\ editingItem # 0
    /\ modalStatus # "exporting"
    /\ nStarted < startLimit
    /\ nStarted' = nStarted + 1
    /\ modalStatus' = "exporting"
    /\ itemStatuses' = SetStatus(itemStatuses, editingItem, Exporting)
    /\ tasks' = Start(tasks,
           TransferContent([NewTask(editingItem, "editor", contentType,
                                    skipImageTransfer) EXCEPT !.mounted = TRUE],
                           source[editingItem]))
    /\ UNCHANGED <<siteVars, fetchVars, pageVars, selectedItemIds,
                   isBulkExporting, bulk, editingItem>>

\* onClose: the modal unmounts; its later setState calls are lost.
ModalClose ==
    /\ editingItem # 0
    /\ editingItem' = 0
    /\ modalStatus' = "idle"
    /\ tasks' = BagOfAll(Unmount, tasks)
    /\ UNCHANGED <<siteVars, fetchVars, pageVars, itemStatuses,
                   selectedItemIds, isBulkExporting, bulk, nStarted>>

\* ------------------------------------------------------ the paginated fetch
\* The listed collection of the source site: ids 1..Total in listing order.
Total == Cardinality(DOMAIN source)

Min(a, b) == IF a <= b THEN a ELSE b

\* The response body for ...?per_page=perPage&page=p.
PageItems(p) ==
    LET from == (p - 1) * perPage
        n == IF Total <= from THEN 0 ELSE Min(perPage, Total - from)
    IN  [k \in 1..n |-> from + k]

\* The X-WP-TotalPages header of the first response; hdr = FALSE is a
\* response without the pagination headers.
TotalPagesOf_HeaderAssumed(hdr) == (Total + perPage - 1) \div perPage
TotalPagesOf(hdr) == IF hdr THEN (Total + perPage - 1) \div perPage ELSE 1

\* The X-WP-Total header of the first response.
TotalItemsOf(hdr) == IF hdr THEN Total ELSE 0

\* One getContent call together with the fetchContent chain awaiting it.
\*   headers   - whether the first response carried the pagination headers
\*   allItems  - getContent's accumulator
\*   requested - page numbers requested so far, in request order
\*   pending   - pages 2..N whose response has not arrived
\*   results   - page |-> body, for the pages that answered 2xx
\*   arrived   - those pages in arrival order
\*   failed    - pages whose request failed
\*   returned  - the value getContent resolved with
\*   reports   - the onProgress reports, in order
\*   first     - what the first-page request came back with
\*   sent      - the requests sent, in the order of requested
NewFetch(type, isRefresh) ==
    [pc |-> "page1", type |-> type, isRefresh |-> isRefresh,
     headers |-> "none", first |-> "none", totalPages |-> 0, totalItems |-> 0,
     allItems |-> <<>>,
     requested |-> <<1>>, pending |-> {}, results |-> <<>>,
     arrived |-> <<>>, failed |-> {}, outcome |-> "none",
     returned |-> <<>>, message |-> <<>>, reports |-> <<>>,
     sent |-> <<Sent("list")>>]

AllFetches == BagToSet(fetches)

\* Mutant: the report counts the whole collection as loaded.
Report_AllLoaded(f) == [loaded |-> f.totalItems, total |-> f.totalItems]

Report(f) == [loaded |-> Len(f.allItems), total |-> f.totalItems]

OnProgress(f) == [f EXCEPT !.reports = Append(@, Report(f))]

\* The pages getContent's loop requests after the first one (pagePromises).
PagesToRequest_FromFirst(totalPages) == [k \in 1..totalPages |-> k]
PagesToRequest(totalPages) == [k \in 1..(totalPages - 1) |-> k + 1]

\* Promise.all over the page requests: rejected as soon as one request has
\* failed, fulfilled when every one has answered.
PromiseAll_Settled(pending, failed) ==
    IF pending = {} THEN "fulfilled" ELSE "pending"
PromiseAll(pending, failed) ==
    IF failed # {} THEN "rejected"
    ELSE IF pending = {} THEN "fulfilled"
    ELSE "pending"

RECURSIVE RemainingPagesResults_Reversed(_, _)
\* Mutant: the bodies are concatenated from the last page to the second.
RemainingPagesResults_Reversed(pages, results) ==
    IF pages = <<>> THEN <<>>
    ELSE RemainingPagesResults_Reversed(Tail(pages), results)
           \o (IF Head(pages) \in DOMAIN results THEN results[Head(pages)]
               ELSE <<>>)

RECURSIVE RemainingPagesResults(_, _)
\* The bodies of the answered pages, concatenated in pagePromises order.
RemainingPagesResults(pages, results) ==
    IF pages = <<>> THEN <<>>
    ELSE (IF Head(pages) \in DOMAIN results THEN results[Head(pages)]
          ELSE <<>>) \o RemainingPagesResults(Tail(pages), results)

\* fetchContent's message for a rejected getContent.
FetchError(f, message) ==
    <<"Failed to fetch ", f.type, ": ">> \o message
        \o <<". Please check your connection on the Settings page.">>

\* getContent resolves with allItems: .then stores the list, .finally ends
\* the loading state; a refresh then clears its flag and the selection.
Fulfilled(f, f2) ==
    /\ fetches' = Put(Drop(fetches, f),
                      [f2 EXCEPT !.pc = "done", !.outcome = "ok",
                                 !.returned = f2.allItems])
    /\ contentItems' = f2.allItems
    /\ progress' = <<>>
    /\ isLoading' = IF f.isRefresh THEN isLoading ELSE FALSE
    /\ isRefreshing' = IF f.isRefresh THEN FALSE ELSE isRefreshing
    /\ selectedItemIds' = IF f.isRefresh THEN <<>> ELSE selectedItemIds
    /\ UNCHANGED error

\* Mutant: a rejected getContent also empties the list.
Rejected_ClearsList(f, f2, message) ==
    /\ fetches' = Put(Drop(fetches, f),
                      [f2 EXCEPT !.pc = "done", !.outcome = "error",
                                 !.message = message])
    /\ error' = FetchError(f, message)
    /\ progress' = <<>>
    /\ isLoading' = IF f.isRefresh THEN isLoading ELSE FALSE
    /\ isRefreshing' = IF f.isRefresh THEN FALSE ELSE isRefreshing
    /\ selectedItemIds' = IF f.isRefresh THEN <<>> ELSE selectedItemIds
    /\ contentItems' = <<>>

\* getContent rejects: .catch shows the error, .finally as above.
Rejected(f, f2, message) ==
    /\ fetches' = Put(Drop(fetches, f),
                      [f2 EXCEPT !.pc = "done", !.outcome = "error",
                                 !.message = message])
    /\ error' = FetchError(f, message)
    /\ progress' = <<>>
    /\ isLoading' = IF f.isRefresh THEN isLoading ELSE FALSE
    /\ isRefreshing' = IF f.isRefresh THEN FALSE ELSE isRefreshing
    /\ selectedItemIds' = IF f.isRefresh THEN <<>> ELSE selectedItemIds
    /\ UNCHANGED contentItems

\* getContent stays suspended on Promise.all.
Suspended(f, f2) ==
    /\ fetches' = Put(Drop(fetches, f), f2)
    /\ UNCHANGED <<contentItems, isLoading, isRefreshing, selectedItemIds,
                   error>>

\* The calls that can still act or were the last to finish: the record of
\* a call that is over is kept until the next fetch starts.
Live(b) ==
    LET over == {f \in BagToSet(b) : f.pc = "done" /\ f.pending = {}}
    IN  [f \in BagToSet(b) \ over |-> b[f]]

\* fetchContent up to the getContent call's first await.
FetchContent(type, isRefresh) ==
    /\ nFetches < MaxFetches
    /\ nFetches' = nFetches + 1
    /\ fetches' = Put(Live(fetches), NewFetch(type, isRefresh))
    /\ error' = <<>>
    /\ IF isRefresh
       THEN UNCHANGED <<contentItems, itemStatuses, selectedItemIds,
                        isLoading, progress>>
       ELSE /\ contentItems' = <<>>
            /\ itemStatuses' = <<>>
            /\ selectedItemIds' = <<>>
            /\ isLoading' = TRUE
            /\ progress' = <<>>

\* A tab click: setContentType, then the effect that loads the new type;
\* the exports running at the reload keep running and are marked.
SetContentType(type) ==
    /\ type # contentType
    /\ contentType' = type
    /\ FetchContent(type, FALSE)
    /\ tasks' = BagOfAll(LAMBDA t : [t EXCEPT !.outdated = TRUE], tasks)
    /\ UNCHANGED <<siteVars, isRefreshing, isBulkExporting, skipImageTransfer,
                   editingItem, modalStatus, bulk, nStarted,
                   connector, startLimit, faults, audit, sourceConfig, destConfig,
                   searchTerm, sourceHistory, destHistory, request>>

\* The list's refresh button.
HandleRefresh ==
    /\ ListShown /\ ~isRefreshing
    /\ isRefreshing' = TRUE
    /\ FetchContent(contentType, TRUE)
    /\ UNCHANGED <<siteVars, pageVars, isBulkExporting, editingItem,
                   modalStatus, tasks, bulk, nStarted>>

\* Mutant: the first response is read whatever its status.
FirstPageFailed_Never(r) == FALSE

\* The first-page request rejected, or !initialResponse.ok.
FirstPageFailed(r) == r # "ok"

\* The first page's response arrives.
Page1Return(f, r, hdr) ==
    /\ f.pc = "page1"
    /\ IF FirstPageFailed(r)
       THEN Rejected(f, [f EXCEPT !.first = r], ApiFetchError(r))
       ELSE LET f1 == OnProgress([f EXCEPT !.headers = IF hdr THEN "present"
                                                        ELSE "missing",
                                           !.first = r,
                                           !.totalPages = TotalPagesOf(hdr),
                                           !.totalItems = TotalItemsOf(hdr),
                                           !.allItems = PageItems(1)])
                pages == PagesToRequest(f1.totalPages)
            IN  IF f1.totalPages <= 1
                THEN Fulfilled(f, f1)
                ELSE /\ Suspended(f, [f1 EXCEPT !.pc = "pages",
                                                !.requested = @ \o pages,
                                                !.sent = @ \o [k \in DOMAIN pages
                                                                 |-> Sent("list")],
                                                !.pending = Range(pages)])
                     /\ progress' = Report(f1)
    /\ UNCHANGED <<siteVars, pageVars, itemStatuses, isBulkExporting,
                   editingItem, modalStatus, tasks, bulk, nStarted, nFetches>>

\* The response for page p arrives; once Promise.all has rejected nothing
\* reads the responses still to come.
PageReturn(f, p, r) ==
    /\ f.pc \in {"pages", "done"} /\ p \in f.pending
    /\ LET f1 == IF f.pc = "done" THEN [f EXCEPT !.pending = @ \ {p}]
                 ELSE IF r = "ok"
                 THEN [f EXCEPT !.pending = @ \ {p},
                                !.results = (p :> PageItems(p)) @@ @,
                                !.arrived = Append(@, p)]
                 ELSE [f EXCEPT !.pending = @ \ {p}, !.failed = @ \cup {p}]
           all == PromiseAll(f1.pending, f1.failed)
       IN  IF f.pc = "done" \/ all = "pending"
           THEN Suspended(f, f1) /\ UNCHANGED progress
           ELSE IF all = "rejected"
           THEN Rejected(f, f1, ApiFetchError(r))
           ELSE Fulfilled(f, OnProgress(
                    [f1 EXCEPT !.allItems = @ \o RemainingPagesResults(
                                   Tail(f1.requested), f1.results)]))
    /\ UNCHANGED <<siteVars, pageVars, itemStatuses, isBulkExporting,
                   editingItem, modalStatus, tasks, bulk, nStarted, nFetches>>

\* --------------------------------------------------- connection validation
\* What a request comes back with: an HTTP response (status and body), or no
\* response at all, in which case fetch rejects with a TypeError whose text
\* is the browser's.
HttpResponse(status, body) == [kind |-> "http", status |-> status, body |-> body]
NetFailure(text) == [kind |-> "net", status |-> 0, body |-> text]

\* Bodies: not JSON, JSON without a message, or JSON with a message.
NotJson == "<not json>"
NoMessageField == "<json without message>"
ServerMessages ==
    {"Sorry, you are not allowed to do that.",
     "Failed to fetch the upstream site"}
Bodies == {NotJson, NoMessageField} \cup ServerMessages

\* The TypeError texts of Chromium, Firefox and WebKit.
TypeErrorTexts ==
    {"Failed to fetch", "NetworkError when attempting to fetch resource.",
     "Load failed"}

ValidationResponses ==
    {HttpResponse(200, NoMessageField)}
        \cup {HttpResponse(s, b) : s \in {401, 403, 404, 500}, b \in Bodies}
        \cup {NetFailure(x) : x \in TypeErrorTexts}

\* Mutant: every response that arrived counts as ok.
Ok_AnyResponse(resp) == resp.kind = "http"

\* response.ok
Ok(resp) == resp.kind = "http" /\ resp.status \in 200..299

\* The messages validateConnection throws.
RootUnreachable(status) ==
    Message(<<"Cannot reach the WordPress REST API endpoint. Please check the URL. (Status: ">>,
            status)
AuthenticationFailed ==
    Message(<<"Authentication failed. Please check your username and Application Password.">>, 0)
AuthCheckFailed(status) ==
    Message(<<"Authentication check failed with status: ">>, status)
NetworkError ==
    Message(<<"Network error: Could not connect to the URL.">>, 0)
TypeError(text) == Message(<<text>>, 0)

\* The known texts that contain 'Failed to fetch'.
ContainingFailedToFetch ==
    {"Failed to fetch", "Failed to fetch the upstream site"}

\* error.message.includes('Failed to fetch')
Includes(message) ==
    \E i \in 1..Len(message.text) : message.text[i] \in ContainingFailedToFetch

\* What the try block throws for a root response that is not 2xx.
RootThrows(resp) ==
    IF resp.kind = "net" THEN TypeError(resp.body)
    ELSE RootUnreachable(resp.status)

\* errorData.message || `Authentication check failed with status: ...`
AuthErrorData(resp) ==
    IF resp.body = NotJson THEN Message(<<"Unknown authentication error">>, 0)
    ELSE IF resp.body = NoMessageField THEN AuthCheckFailed(resp.status)
    ELSE Message(<<resp.body>>, 0)

\* Mutant: only a 401 is taken for an authentication failure.
AuthThrows_Only401(resp) ==
    IF resp.kind = "net" THEN TypeError(resp.body)
    ELSE IF resp.status = 401 THEN AuthenticationFailed
    ELSE AuthErrorData(resp)

\* What the try block throws for a users/me response that is not 2xx.
AuthThrows(resp) ==
    IF resp.kind = "net" THEN TypeError(resp.body)
    ELSE IF resp.status = 401 \/ resp.status = 403 THEN AuthenticationFailed
    ELSE AuthErrorData(resp)

\* validateConnection's catch: a message that mentions 'Failed to fetch'
\* becomes the network error, anything else is rethrown.
Catch(message) == IF Includes(message) THEN NetworkError ELSE message

\* handleSubmit's catch and finally: show the message, end the connecting
\* state.
SubmitFails(c, message) ==
    [c EXCEPT !.pc = "idle", !.outcome = "error", !.isConnecting = FALSE,
              !.error = IF message.text = <<>>
                        THEN Message(<<"Connection failed. Please check details.">>, 0)
                        ELSE message]

\* validateConnection returned: onConnect gets the tested configuration.
SubmitSucceeds(c) ==
    [c EXCEPT !.pc = "idle", !.outcome = "ok", !.isConnecting = FALSE,
              !.config = <<"configToTest">>,
              !.saved = @ \cup {<<"configToTest">>}]

\* The request validateConnection sends to endpoint; authorization tells
\* whether it carries the Basic credential.
Request(endpoint, authorization) ==
    [endpoint |-> endpoint, authorization |-> authorization]

\* The form is submitted; filled tells whether every field has a value.
HandleSubmit(filled) ==
    /\ connector.config = <<>> /\ ~connector.isConnecting
    /\ connector.submits < MaxSubmits
    /\ connector' =
         IF ~filled
         THEN [connector EXCEPT !.submits = @ + 1, !.calls = <<>>,
                                !.rets = <<>>, !.outcome = "none",
                                !.error = Message(<<"All fields are required.">>, 0)]
         ELSE [connector EXCEPT !.submits = @ + 1, !.error = NoMessage,
                                !.isConnecting = TRUE, !.pc = "root",
                                !.outcome = "none", !.rets = <<>>,
                                !.calls = <<Request("wp-json/", FALSE)>>]
    /\ UNCHANGED <<siteVars, fetchVars, contentType, skipImageTransfer,
                   startLimit, faults, audit, sourceConfig, destConfig, searchTerm,
                   sourceHistory, destHistory,
                   request, itemStatuses, selectedItemIds,
                   isBulkExporting, editingItem, modalStatus, tasks, bulk,
                   nStarted>>

\* The REST root's response arrives.
RootReturn(resp) ==
    /\ connector.pc = "root"
    /\ LET c == [connector EXCEPT !.rets = Append(@, resp)] IN
       connector' =
         IF Ok(resp)
         THEN [c EXCEPT !.pc = "auth",
                        !.calls = Append(@, Request("wp/v2/users/me", TRUE))]
         ELSE SubmitFails(c, Catch(RootThrows(resp)))
    /\ UNCHANGED <<siteVars, fetchVars, contentType, skipImageTransfer,
                   startLimit, faults, audit, sourceConfig, destConfig, searchTerm,
                   sourceHistory, destHistory,
                   request, itemStatuses, selectedItemIds,
                   isBulkExporting, editingItem, modalStatus, tasks, bulk,
                   nStarted>>

\* The users/me response arrives.
AuthReturn(resp) ==
    /\ connector.pc = "auth"
    /\ LET c == [connector EXCEPT !.rets = Append(@, resp)] IN
       connector' =
         IF Ok(resp) THEN SubmitSucceeds(c)
         ELSE SubmitFails(c, Catch(AuthThrows(resp)))
    /\ UNCHANGED <<siteVars, fetchVars, contentType, skipImageTransfer,
                   startLimit, faults, audit, sourceConfig, destConfig, searchTerm,
                   sourceHistory, destHistory,
                   request, itemStatuses, selectedItemIds,
                   isBulkExporting, editingItem, modalStatus, tasks, bulk,
                   nStarted>>

\* The Disconnect button of a connected site.
Disconnect ==
    /\ connector.config # <<>>
    /\ connector' = [connector EXCEPT !.config = <<>>]
    /\ UNCHANGED <<siteVars, fetchVars, contentType, skipImageTransfer,
                   startLimit, faults, audit, sourceConfig, destConfig, searchTerm,
                   sourceHistory, destHistory,
                   request, itemStatuses, selectedItemIds,
                   isBulkExporting, editingItem, modalStatus, tasks, bulk,
                   nStarted>>

\* A saved connection's Source / Destination button: onSetSource(conn).
LoadSaved(conn) ==
    /\ conn \in connector.saved
    /\ connector' = [connector EXCEPT !.config = conn]
    /\ UNCHANGED <<siteVars, fetchVars, contentType, skipImageTransfer,
                   startLimit, faults, audit, sourceConfig, destConfig, searchTerm,
                   sourceHistory, destHistory,
                   request, itemStatuses,
                   selectedItemIds, isBulkExporting, editingItem, modalStatus,
                   tasks, bulk, nStarted>>

\* ------------------------------------------------- the transport helper
\* A request that goes through apiFetch, or the first-page request of
\* getContent, which repeats apiFetch's error handling with its own text.
Callers == {"apiFetch"} \cup ContentTypes

\* A JSON body whose message is the empty string.
EmptyMessage == ""

TransportBodies == Bodies \cup {EmptyMessage}

TransportResponses ==
    {HttpResponse(200, NoMessageField)}
        \cup {HttpResponse(st, b) : st \in {400, 401, 403, 404, 500, 502, 503},
                                    b \in TransportBodies}
        \cup {NetFailure(x) : x \in TypeErrorTexts}

NoRequest ==
    [pc |-> "idle", caller |-> "apiFetch",
     resp |-> HttpResponse(200, NoMessageField), message |-> NoMessage]

HttpError(status) == Message(<<"HTTP error! status: ">>, status)

\* The object the .catch() of response.json() supplies.
UnknownError(caller) ==
    IF caller = "apiFetch" THEN Message(<<"Unknown error">>, 0)
    ELSE Message(<<"Unknown error getting ", caller>>, 0)

\* errorData.message || `HTTP error! status: ${response.status}`
ErrorData(caller, resp) ==
    IF resp.body = NotJson THEN UnknownError(caller)
    ELSE IF resp.body \in {NoMessageField, EmptyMessage}
    THEN HttpError(resp.status)
    ELSE Message(<<resp.body>>, 0)

\* The message of the error the request ends with.
TransportThrows(caller, resp) ==
    IF resp.kind = "net" THEN TypeError(resp.body)
    ELSE ErrorData(caller, resp)

SendRequest(caller) ==
    /\ request.pc # "sent"
    /\ request' = [NoRequest EXCEPT !.pc = "sent", !.caller = caller]
    /\ UNCHANGED <<siteVars, fetchVars, contentType, skipImageTransfer,
                   connector, startLimit, faults, audit, sourceConfig, destConfig,
                   searchTerm, sourceHistory, destHistory, itemStatuses,
                   selectedItemIds, isBulkExporting, editingItem, modalStatus,
                   tasks, bulk, nStarted>>

RequestReturn(resp) ==
    /\ request.pc = "sent"
    /\ request' = IF Ok(resp)
                  THEN [request EXCEPT !.pc = "returned", !.resp = resp]
                  ELSE [request EXCEPT !.pc = "thrown", !.resp = resp,
                            !.message = TransportThrows(request.caller, resp)]
    /\ UNCHANGED <<siteVars, fetchVars, contentType, skipImageTransfer,
                   connector, startLimit, faults, audit, sourceConfig, destConfig,
                   searchTerm, sourceHistory, destHistory, itemStatuses,
                   selectedItemIds, isBulkExporting, editingItem, modalStatus,
                   tasks, bulk, nStarted>>

NextTransport ==
    \/ \E caller \in Callers : SendRequest(caller)
    \/ \E resp \in TransportResponses : RequestReturn(resp)

\* --------------------------------------------------------- initial states
PageLoaded(items) ==
    /\ contentItems = items
    /\ itemStatuses = <<>>
    /\ selectedItemIds = <<>>
    /\ isBulkExporting = FALSE
    /\ editingItem = 0
    /\ modalStatus = "idle"
    /\ isLoading = FALSE
    /\ isRefreshing = FALSE
    /\ error = <<>>
    /\ tasks = EmptyBag
    /\ bulk = NoBulk
    /\ fetches = EmptyBag
    /\ progress = <<>>
    /\ connector = NoConnector
    /\ request = NoRequest
    /\ nStarted = 0
    /\ nFetches = 0

EmptyDestination ==
    /\ destTerms = <<>>
    /\ destMedia = 0
    /\ destContent = EmptyBag

\* The source items of the page specifications: odd ids carry a featured
\* image, even ids a category.
ListedContent(i) ==
    IF i % 2 = 1 THEN Content(i, TRUE, <<>>, FALSE)
    ELSE Content(i, FALSE, <<Term("news", "category")>>, FALSE)

\* The migration page with both sites connected and the posts loaded.
InitPage ==
    /\ source = [i \in Items |-> ListedContent(i)]
    /\ EmptyDestination
    /\ contentType = Posts
    /\ skipImageTransfer = FALSE
    /\ startLimit = MaxTransfers
    /\ faults = {"http"}
    /\ audit = FALSE
    /\ sourceConfig = SourceSite
    /\ destConfig = DestSite
    /\ searchTerm = <<>>
    /\ sourceHistory = <<>>
    /\ destHistory = <<>>
    /\ PageLoaded([i \in 1..MaxItems |-> i])

Init == InitPage

Next ==
    \/ \E i \in Items : ClickExport(i)
    \/ \E i \in Items : ToggleSelection(i)
    \/ ClickBulkExport
    \/ \E i \in Items : HandleEditItem(i)
    \/ ModalExport
    \/ ModalClose
    \/ \E t \in InFlight, r \in Responses : DetailsReturn(t, r)
    \/ \E t \in InFlight, r \in Responses : DownloadReturn(t, r)
    \/ \E t \in InFlight, r \in Responses : UploadReturn(t, r)
    \/ \E t \in InFlight, r \in Responses : LookupReturn(t, r)
    \/ \E t \in InFlight, r \in Responses : CreateTermReturn(t, r)
    \/ \E t \in InFlight, r \in Responses : CreateReturn(t, r)

Spec == Init /\ [][Next]_vars

\* The page without the editor modal: list exports and batches only.
NextBatch ==
    \/ \E i \in Items : ClickExport(i)
    \/ \E i \in Items : ToggleSelection(i)
    \/ ClickBulkExport
    \/ \E t \in InFlight, r \in Responses : DetailsReturn(t, r)
    \/ \E t \in InFlight, r \in Responses : DownloadReturn(t, r)
    \/ \E t \in InFlight, r \in Responses : UploadReturn(t, r)
    \/ \E t \in InFlight, r \in Responses : LookupReturn(t, r)
    \/ \E t \in InFlight, r \in Responses : CreateTermReturn(t, r)
    \/ \E t \in InFlight, r \in Responses : CreateReturn(t, r)

SpecBatch == InitPage /\ [][NextBatch]_vars

\* Some outstanding remote call returns.
ReturnStep ==
    \E t \in InFlight, r \in Responses :
        \/ DetailsReturn(t, r) \/ DownloadReturn(t, r) \/ UploadReturn(t, r)
        \/ LookupReturn(t, r) \/ CreateTermReturn(t, r) \/ CreateReturn(t, r)

\* The page with its editor, every remote call eventually returning.
SpecLive == Init /\ [][Next]_vars /\ WF_vars(ReturnStep)

\* The same page with room for one transfer beside a full batch.
InitLive ==
    /\ source = [i \in Items |-> ListedContent(i)]
    /\ EmptyDestination
    /\ contentType = Posts
    /\ skipImageTransfer = FALSE
    /\ startLimit = MaxTransfers + 1
    /\ faults = {"http"}
    /\ audit = FALSE
    /\ sourceConfig = SourceSite
    /\ destConfig = DestSite
    /\ searchTerm = <<>>
    /\ sourceHistory = <<>>
    /\ destHistory = <<>>
    /\ PageLoaded([i \in 1..MaxItems |-> i])

\* Every remote call eventually returns.
SpecBatchLive == InitLive /\ [][NextBatch]_vars /\ WF_vars(ReturnStep)

\* ------------------------------------------- one item, every kind of content
Cat(slug) == Term(slug, "category")
Tag(slug) == Term(slug, "post_tag")

\* The shapes of source item the single-item specification starts from.
Shapes ==
    { Content(1, FALSE, <<>>, FALSE),
      Content(1, TRUE,  <<>>, TRUE),
      Content(1, TRUE,  <<Cat("a")>>, FALSE),
      Content(1, FALSE, <<Cat("a"), Tag("a")>>, TRUE),
      Content(1, TRUE,  <<Tag("b"), Cat("a"), Cat("b")>>, FALSE),
      [Content(1, FALSE, <<Tag("b")>>, FALSE) EXCEPT !.status = "draft"] }

DestTerm(slug, endpoint) == [name |-> slug, slug |-> slug, endpoint |-> endpoint]

\* The destination taxonomies the single-item specification starts from:
\* empty, the category present, and a slug present twice and in both kinds.
DestinationTerms ==
    { <<>>,
      <<DestTerm("a", "categories")>>,
      <<DestTerm("a", "tags"), DestTerm("a", "categories"),
        DestTerm("a", "categories")>> }

\* One listed item of any shape, any content type and transfer option, any of
\* the destination taxonomies; settled transfers are kept with their call log.
InitTransfer ==
    /\ \E c \in Shapes : source = [i \in Items |-> c]
    /\ destTerms \in DestinationTerms
    /\ destMedia = 0
    /\ destContent = EmptyBag
    /\ contentType \in ContentTypes
    /\ skipImageTransfer \in BOOLEAN
    /\ startLimit = MaxAttempts
    /\ faults = {"http", "net"}
    /\ audit = TRUE
    /\ sourceConfig = SourceSite
    /\ destConfig = DestSite
    /\ searchTerm = <<>>
    /\ sourceHistory = <<>>
    /\ destHistory = <<>>
    /\ PageLoaded(<<1>>)

NextTransfer ==
    \/ ClickExport(1)
    \/ \E t \in InFlight, r \in Responses : DetailsReturn(t, r)
    \/ \E t \in InFlight, r \in Responses : DownloadReturn(t, r)
    \/ \E t \in InFlight, r \in Responses : UploadReturn(t, r)
    \/ \E t \in InFlight, r \in Responses : LookupReturn(t, r)
    \/ \E t \in InFlight, r \in Responses : CreateTermReturn(t, r)
    \/ \E t \in InFlight, r \in Responses : CreateReturn(t, r)

SpecTransfer == InitTransfer /\ [][NextTransfer]_vars

\* ------------------------------------------------- connecting a site
\* The settings page with no site connected and nothing listed.
InitValidate ==
    /\ source = <<>>
    /\ EmptyDestination
    /\ contentType = Posts
    /\ skipImageTransfer = FALSE
    /\ startLimit = 0
    /\ faults = {"http", "net"}
    /\ audit = FALSE
    /\ sourceConfig = SourceSite
    /\ destConfig = DestSite
    /\ searchTerm = <<>>
    /\ sourceHistory = <<>>
    /\ destHistory = <<>>
    /\ PageLoaded(<<>>)

NextValidate ==
    \/ \E filled \in BOOLEAN : HandleSubmit(filled)
    \/ \E resp \in ValidationResponses : RootReturn(resp)
    \/ \E resp \in ValidationResponses : AuthReturn(resp)
    \/ Disconnect

SpecValidate == InitValidate /\ [][NextValidate]_vars

\* The settings page: the connector form and the saved connections.
NextSettings ==
    \/ \E filled \in BOOLEAN : HandleSubmit(filled)
    \/ \E resp \in ValidationResponses : RootReturn(resp)
    \/ \E resp \in ValidationResponses : AuthReturn(resp)
    \/ Disconnect
    \/ \E conn \in connector.saved : LoadSaved(conn)

SpecSettings == InitValidate /\ [][NextSettings]_vars

\* The transport helper alone.
SpecTransport == InitValidate /\ [][NextTransport]_vars

\* ================================================================ claims
\* ---- reading a task's call trace
AllTasks == BagToSet(tasks)

CallsAt(t, calls) ==
    {i \in 1..Len(t.log) : t.log[i][1] = "call" /\ t.log[i][2] \in calls}

RetsAt(t, calls, rs) ==
    {i \in 1..Len(t.log) :
        t.log[i][1] = "ret" /\ t.log[i][2] \in calls /\ t.log[i][3] \in rs}

MediaCalls == {"download", "upload"}
TermCalls  == {"lookup", "createTerm"}
Failures   == {"http", "net"}

\* Every call is issued only when the task's previous call has returned.
OneCallAtATime(t) ==
    \A i \in 1..Len(t.log) :
        IF i % 2 = 1 THEN t.log[i][1] = "call"
        ELSE t.log[i][1] = "ret" /\ t.log[i][2] = t.log[i - 1][2]

\* C5: within one transfer the stages run in the order media -> taxonomy ->
\* creation. A term call is issued only after every media call, and when a
\* download was issued only after the upload has returned; the creation call
\* is issued only after every term and media call, and for a post only after
\* one lookup per embedded term has returned; no call of a task is issued
\* while another call of the same task is outstanding.
C5_StagesInOrder ==
    \A t \in AllTasks :
        /\ OneCallAtATime(t)
        /\ \A j \in CallsAt(t, TermCalls) :
              /\ \A i \in CallsAt(t, MediaCalls) : i < j
              /\ CallsAt(t, {"download"}) # {} =>
                     \E i \in RetsAt(t, {"upload"}, {"ok"}) : i < j
        /\ \A j \in CallsAt(t, {"create"}) :
              /\ \A i \in CallsAt(t, MediaCalls \cup TermCalls) : i < j
              /\ CallsAt(t, {"download"}) # {} =>
                     \E i \in RetsAt(t, {"upload"}, {"ok"}) : i < j
              /\ t.ctype = Posts =>
                     /\ Cardinality(RetsAt(t, {"lookup"}, {"ok"}))
                            = Len(t.content.terms)
                     /\ Len(t.resolved) = Len(t.content.terms)

\* A transfer that ran all three stages, creating a term on the way.
C5_Witness ==
    \E t \in AllTasks :
        /\ t.outcome = "success"
        /\ CallsAt(t, {"upload"}) # {}
        /\ CallsAt(t, {"createTerm"}) # {}
        /\ Cardinality(CallsAt(t, {"lookup"})) >= 2

\* C6: a transfer in which a term lookup or a term creation failed has
\* failed without ever issuing the content-creation call, whichever term it
\* was; and every term the transfer had resolved before is still on the
\* destination under the id it was given.
C6_TaxonomyFailureAborts ==
    \A t \in AllTasks :
        /\ RetsAt(t, TermCalls, Failures) # {} =>
              /\ t.pc = "done" /\ t.outcome = "error"
              /\ CallsAt(t, {"create"}) = {}
        /\ \A p \in 1..Len(t.resolved) :
              /\ t.resolved[p] \in 1..Len(destTerms)
              /\ destTerms[t.resolved[p]].slug = t.content.terms[p].slug
              /\ destTerms[t.resolved[p]].endpoint
                     = TaxonomyEndpoint(t.content.terms[p])

\* A transfer that created a term and then failed on a later term.
C6_Witness ==
    \E t \in AllTasks :
        \E i \in RetsAt(t, {"createTerm"}, {"ok"}) :
            \E j \in RetsAt(t, TermCalls, Failures) : i < j

RECURSIVE SumOver(_, _)
SumOver(S, f) ==
    IF S = {} THEN 0
    ELSE LET x == CHOOSE y \in S : TRUE IN f[x] + SumOver(S \ {x}, f)

\* Successful uploads over all transfers so far.
UploadsDone ==
    SumOver(AllTasks,
            [t \in AllTasks |->
                CopiesIn(t, tasks) * Cardinality(RetsAt(t, {"upload"}, {"ok"}))])

\* C7: a transfer whose media download or upload failed has failed without
\* issuing any term call or the content-creation call, and the destination
\* still holds every media object uploaded so far.
C7_MediaFailureAborts ==
    /\ \A t \in AllTasks :
          RetsAt(t, MediaCalls, Failures) # {} =>
              /\ t.pc = "done" /\ t.outcome = "error"
              /\ CallsAt(t, TermCalls \cup {"create"}) = {}
    /\ destMedia = UploadsDone

\* A retry whose upload failed, after an attempt whose upload had succeeded.
C7_Witness ==
    /\ destMedia > 0
    /\ \E t \in AllTasks : RetsAt(t, {"upload"}, Failures) # {}

\* C8: a transfer with skipImageTransfer set issues no download and no upload
\* call, and neither its payload nor the content it creates carries
\* featured_media.
C8_SkipImageNoMedia ==
    /\ \A t \in AllTasks :
          t.skip => /\ CallsAt(t, MediaCalls) = {}
                    /\ "featured_media" \notin DOMAIN t.payload
    /\ skipImageTransfer =>
          \A c \in BagToSet(destContent) : "featured_media" \notin DOMAIN c.body

\* A finished transfer of an item with a featured image, image skipped.
C8_Witness ==
    \E t \in AllTasks :
        t.skip /\ t.content.media /\ t.outcome = "success"

\* ---- the batch
\* Number of transfers in flight for item i.
TransfersInFlight(i) ==
    SumOver({t \in InFlight : t.item = i},
            [t \in InFlight |-> CopiesIn(t, tasks)])

BulkTasksInFlight ==
    SumOver({t \in InFlight : t.origin = "bulk"},
            [t \in InFlight |-> CopiesIn(t, tasks)])

\* C1: a batch is never aborted by an item's failure. The loop has a result
\* for every item it started but the one in flight; each result is for the
\* item started at that position and the status written for it is success or
\* error according to that transfer's own outcome; and when the loop has
\* ended, it has started a transfer for every item of the submitted selection
\* and reset the bulk-exporting flag.
C1_BatchNeverAborts ==
    /\ ~bulk.aborted
    /\ isBulkExporting = bulk.active
    /\ Len(bulk.results) = (IF bulk.active THEN bulk.idx - 1 ELSE bulk.idx)
    /\ \A k \in 1..Len(bulk.results) :
          /\ bulk.results[k].item = bulk.started[k]
          /\ bulk.results[k].written =
                 (IF bulk.results[k].outcome = "success" THEN "success"
                  ELSE "error")
    /\ ~bulk.active =>
          /\ Len(bulk.started) = Len(bulk.queue)
          /\ Range(bulk.started) = Range(bulk.queue)

\* A finished batch of two whose first item failed and whose second succeeded.
C1_Witness ==
    /\ ~bulk.active
    /\ Len(bulk.results) = 2
    /\ bulk.results[1].outcome = "error"
    /\ bulk.results[2].outcome = "success"

\* C2: a batch starts its items in the order of the submitted selection, one
\* at a time: the items started so far are a prefix of the selection, item
\* k+1 is started only when item k has a result, and at most one transfer of
\* the batch is in flight, the one of the item started last.
C2_BatchSequentialInOrder ==
    /\ IsPrefix(bulk.started, bulk.queue)
    /\ Len(bulk.started) = bulk.idx
    /\ Len(bulk.started) <= Len(bulk.results) + 1
    /\ BulkTasksInFlight <= 1
    /\ BulkTasksInFlight = (IF bulk.active THEN 1 ELSE 0)
    /\ \A t \in InFlight :
          t.origin = "bulk" => t.item = bulk.started[Len(bulk.started)]

\* The second item of the selection <<2, 1>> is in flight.
C2_Witness ==
    /\ bulk.active
    /\ bulk.queue = <<2, 1>>
    /\ bulk.started = <<2, 1>>
    /\ \E t \in InFlight : t.origin = "bulk" /\ t.item = 1 /\ t.pc = "create"

\* C3: at most one transfer for a given item id is in flight at any time.
C3_OneTransferPerItem ==
    \A i \in Items : TransfersInFlight(i) <= 1

AllowedStatusChanges ==
    { <<"idle", "exporting">>, <<"exporting", "success">>,
      <<"exporting", "error">>, <<"error", "exporting">> }

\* C4: every change of an item's status is one of idle->exporting,
\* exporting->success, exporting->error, error->exporting.
C4_StatusTransitions ==
    [][\A i \in Items :
          StatusOf(i)'.status # StatusOf(i).status =>
              <<StatusOf(i).status, StatusOf(i)'.status>> \in AllowedStatusChanges
      ]_vars

\* ------------------------------------------------- the fetch, page by page
\* Collection sizes around every page boundary up to MaxPages pages.
Totals ==
    {0, 1} \cup {n * perPage : n \in 1..MaxPages}
           \cup {n * perPage + 1 : n \in 1..(MaxPages - 1)}

\* The migration page just mounted on a connected source: the effect has
\* called fetchContent for the posts.
InitFetch ==
    /\ \E total \in Totals :
           source = [i \in 1..total |-> Content(i, FALSE, <<>>, FALSE)]
    /\ EmptyDestination
    /\ contentType = Posts
    /\ skipImageTransfer = FALSE
    /\ startLimit = 0
    /\ faults = {"http", "net"}
    /\ audit = TRUE
    /\ sourceConfig = SourceSite
    /\ destConfig = DestSite
    /\ searchTerm = <<>>
    /\ sourceHistory = <<>>
    /\ destHistory = <<>>
    /\ contentItems = <<>>
    /\ itemStatuses = <<>>
    /\ selectedItemIds = <<>>
    /\ isBulkExporting = FALSE
    /\ editingItem = 0
    /\ modalStatus = "idle"
    /\ isLoading = TRUE
    /\ isRefreshing = FALSE
    /\ error = <<>>
    /\ tasks = EmptyBag
    /\ bulk = NoBulk
    /\ fetches = SetToBag({NewFetch(Posts, FALSE)})
    /\ progress = <<>>
    /\ request = NoRequest
    /\ connector = NoConnector
    /\ nStarted = 0
    /\ nFetches = 1

\* One content type: the initial load, then refreshes of the shown list.
NextFetch ==
    \/ HandleRefresh
    \/ \E f \in AllFetches, r \in Responses, hdr \in BOOLEAN :
           Page1Return(f, r, hdr)
    \/ \E f \in AllFetches, r \in Responses :
           \E p \in f.pending : PageReturn(f, p, r)

SpecFetch == InitFetch /\ [][NextFetch]_vars

\* The initial load and the content-type tabs: a tab click starts a new
\* load while the responses of the one before may still be outstanding.
NextSwitch ==
    \/ \E type \in ContentTypes : SetContentType(type)
    \/ \E f \in AllFetches, r \in Responses, hdr \in BOOLEAN :
           Page1Return(f, r, hdr)
    \/ \E f \in AllFetches, r \in Responses :
           \E p \in f.pending : PageReturn(f, p, r)

SpecSwitch == InitFetch /\ [][NextSwitch]_vars

\* The loaded page with its exports and the content-type tabs.
NextReload ==
    \/ \E i \in Items : ClickExport(i)
    \/ \E i \in Items : ToggleSelection(i)
    \/ \E type \in ContentTypes : SetContentType(type)
    \/ \E f \in AllFetches, r \in Responses, hdr \in BOOLEAN :
           Page1Return(f, r, hdr)
    \/ ReturnStep

SpecReload == InitPage /\ [][NextReload]_vars

\* The migration page with any of its two connections set or missing:
\* without a source the effect has emptied the list.
InitBulk ==
    /\ source = [i \in Items |-> ListedContent(i)]
    /\ EmptyDestination
    /\ contentType = Posts
    /\ skipImageTransfer = FALSE
    /\ startLimit = MaxTransfers
    /\ faults = {"http"}
    /\ audit = FALSE
    /\ sourceConfig \in {null, SourceSite}
    /\ destConfig \in {null, DestSite}
    /\ searchTerm = <<>>
    /\ sourceHistory = <<>>
    /\ destHistory = <<>>
    /\ PageLoaded(IF sourceConfig # null THEN [i \in 1..MaxItems |-> i] ELSE <<>>)

\* The checkboxes, "Export Selected" and the returns of the batch's calls.
NextBulk ==
    \/ \E i \in Items : ToggleSelection(i)
    \/ ClickBulkExport
    \/ ReturnStep

SpecBulk == InitBulk /\ [][NextBulk]_vars

\* What is typed into the search box: nothing, a term in another case, a
\* term that matches a decoded entity, terms matching one item or none.
SearchTerms == {<<>>, <<"N">>, <<"&">>, <<"b">>, <<"z">>}

\* The loaded page with one export allowed, the search box and "Select all".
InitSelect ==
    /\ source = [i \in Items |-> ListedContent(i)]
    /\ EmptyDestination
    /\ contentType = Posts
    /\ skipImageTransfer = FALSE
    /\ startLimit = 1
    /\ faults = {"http"}
    /\ audit = FALSE
    /\ sourceConfig = SourceSite
    /\ destConfig = DestSite
    /\ searchTerm = <<>>
    /\ sourceHistory = <<>>
    /\ destHistory = <<>>
    /\ PageLoaded([i \in 1..MaxItems |-> i])

NextSelect ==
    \/ \E term \in SearchTerms : OnSearchChange(term)
    \/ HandleToggleSelectAll
    \/ \E i \in Items : ClickExport(i)
    \/ ReturnStep

SpecSelect == InitSelect /\ [][NextSelect]_vars

\* ------------------------------------------------- connection histories
\* How many connections a history keeps.
HistoryLimit == 5

\* The SavedSiteConfig of a connection: the token is not kept.
SavedItem(newConfig) ==
    [url |-> newConfig.url, username |-> newConfig.username,
     proxyUrl |-> newConfig.proxyUrl]

\* item is the saved connection of this url and username.
SameConnection(item, url, username) ==
    item.url = url /\ item.username = username

\* Mutant: the earlier entry of the same url and username is kept.
UpdateHistory_Unfiltered(prevHistory, newConfig) ==
    LET all == <<SavedItem(newConfig)>> \o prevHistory
    IN  SubSeq(all, 1, IF Len(all) < HistoryLimit THEN Len(all)
                       ELSE HistoryLimit)

\* updateHistory's state update: the new entry, then the entries of other
\* connections, cut by slice(0, 5).
UpdateHistory(prevHistory, newConfig) ==
    LET otherItems ==
            SelectSeq(prevHistory,
                      LAMBDA item : ~SameConnection(item, newConfig.url,
                                                    newConfig.username))
        all == <<SavedItem(newConfig)>> \o otherItems
    IN  SubSeq(all, 1, IF Len(all) < HistoryLimit THEN Len(all)
                       ELSE HistoryLimit)

\* What the history handlers leave alone.
appVars == <<siteVars, contentType, skipImageTransfer, connector, startLimit,
             faults, audit, searchTerm, request, itemStatuses,
             selectedItemIds, tasks, isBulkExporting, bulk, editingItem,
             modalStatus, nStarted, fetches, progress, isLoading,
             isRefreshing, nFetches>>

HandleSourceConnect(config) ==
    /\ sourceConfig' = config
    /\ sourceHistory' = UpdateHistory(sourceHistory, config)
    /\ UNCHANGED <<appVars, contentItems, error, destConfig, destHistory>>

HandleDestConnect(config) ==
    /\ destConfig' = config
    /\ destHistory' = UpdateHistory(destHistory, config)
    /\ UNCHANGED <<appVars, contentItems, error, sourceConfig, sourceHistory>>

\* The delete button of a history entry.
HandleHistoryDelete(itemToDelete, type) ==
    LET without(prev) ==
            SelectSeq(prev,
                      LAMBDA item : ~SameConnection(item, itemToDelete.url,
                                                    itemToDelete.username))
    IN  /\ IF type = "source"
           THEN /\ itemToDelete \in Range(sourceHistory)
                /\ sourceHistory' = without(sourceHistory)
                /\ UNCHANGED destHistory
           ELSE /\ itemToDelete \in Range(destHistory)
                /\ destHistory' = without(destHistory)
                /\ UNCHANGED sourceHistory
        /\ UNCHANGED <<appVars, contentItems, error, sourceConfig,
                       destConfig>>

HandleSourceDisconnect ==
    /\ sourceConfig # null
    /\ sourceConfig' = null
    /\ contentItems' = <<>>
    /\ error' = <<>>
    /\ UNCHANGED <<appVars, destConfig, sourceHistory, destHistory>>

HandleDestDisconnect ==
    /\ destConfig # null
    /\ destConfig' = null
    /\ UNCHANGED <<appVars, contentItems, error, sourceConfig, sourceHistory,
                   destHistory>>

\* The sites one can connect to: three urls with two users each, one of
\* them also through a proxy; the destination is one of three of them.
ViaProxy == SiteConfig("https://a.example", "admin", "https://proxy.example")
SourceConfigs ==
    {SiteConfig(url, username, "") :
         url \in {"https://a.example", "https://b.example",
                  "https://c.example"},
         username \in {"admin", "editor"}} \cup {ViaProxy}
DestConfigs ==
    {SiteConfig("https://a.example", "admin", ""), ViaProxy,
     SiteConfig("https://b.example", "admin", "")}

\* The application with no site connected and empty histories.
InitHistory ==
    /\ source = <<>>
    /\ EmptyDestination
    /\ contentType = Posts
    /\ skipImageTransfer = FALSE
    /\ startLimit = 0
    /\ faults = {}
    /\ audit = FALSE
    /\ sourceConfig = null
    /\ destConfig = null
    /\ searchTerm = <<>>
    /\ sourceHistory = <<>>
    /\ destHistory = <<>>
    /\ PageLoaded(<<>>)

NextHistory ==
    \/ \E config \in SourceConfigs : HandleSourceConnect(config)
    \/ \E config \in DestConfigs : HandleDestConnect(config)
    \/ \E config \in SourceConfigs, type \in {"source", "destination"} :
           HandleHistoryDelete(SavedItem(config), type)
    \/ HandleSourceDisconnect
    \/ HandleDestDisconnect

SpecHistory == InitHistory /\ [][NextHistory]_vars

\* The migration page from its mount on: the list is loaded from a source
\* of two pages whose first item has an image and a category, and then
\* refreshed and item 1 exported.
InitRequests ==
    /\ source = [i \in 1..(perPage + 1) |->
                    IF i = 1 THEN Content(1, TRUE, <<Cat("a")>>, FALSE)
                    ELSE Content(i, FALSE, <<>>, FALSE)]
    /\ EmptyDestination
    /\ contentType \in ContentTypes
    /\ skipImageTransfer = FALSE
    /\ startLimit = MaxAttempts
    /\ faults = {"http"}
    /\ audit = TRUE
    /\ sourceConfig = SourceSite
    /\ destConfig = DestSite
    /\ searchTerm = <<>>
    /\ sourceHistory = <<>>
    /\ destHistory = <<>>
    /\ contentItems = <<>>
    /\ itemStatuses = <<>>
    /\ selectedItemIds = <<>>
    /\ isBulkExporting = FALSE
    /\ editingItem = 0
    /\ modalStatus = "idle"
    /\ isLoading = TRUE
    /\ isRefreshing = FALSE
    /\ error = <<>>
    /\ tasks = EmptyBag
    /\ bulk = NoBulk
    /\ fetches = SetToBag({NewFetch(contentType, FALSE)})
    /\ progress = <<>>
    /\ request = NoRequest
    /\ connector = NoConnector
    /\ nStarted = 0
    /\ nFetches = 1

NextRequests ==
    \/ HandleRefresh
    \/ \E f \in AllFetches, r \in Responses, hdr \in BOOLEAN :
           Page1Return(f, r, hdr)
    \/ \E f \in AllFetches, r \in Responses :
           \E p \in f.pending : PageReturn(f, p, r)
    \/ ClickExport(1)
    \/ ReturnStep

SpecRequests == InitRequests /\ [][NextRequests]_vars

\* The same page with the rows' checkboxes in use.
NextRefresh ==
    \/ NextRequests
    \/ \E i \in Items : ToggleSelection(i)

SpecRefresh == InitRequests /\ [][NextRefresh]_vars

\* ---- the fetch
\* The ids on pages 1..n of the source collection.
ItemsOfPages(n) == UNION {Range(PageItems(p)) : p \in 1..n}

TimesRequested(f, p) ==
    Cardinality({k \in 1..Len(f.requested) : f.requested[k] = p})

\* C9: a fetch over N > 1 pages that succeeds returns every item of pages
\* 1..N exactly once, whatever order the responses arrived in, and has
\* requested each of the pages 2..N exactly once.
C9_EveryPageOnce ==
    \A f \in AllFetches :
        (f.pc = "done" /\ f.outcome = "ok" /\ f.totalPages > 1) =>
            /\ Range(f.returned) = ItemsOfPages(f.totalPages)
            /\ Len(f.returned) = Cardinality(ItemsOfPages(f.totalPages))
            /\ \A p \in 2..f.totalPages : TimesRequested(f, p) = 1
            /\ Range(f.requested) = 1..f.totalPages

\* A three-page fetch succeeded although page 3 answered before page 2.
C9_Witness ==
    \E f \in AllFetches :
        /\ f.pc = "done" /\ f.outcome = "ok" /\ f.totalPages = 3
        /\ f.arrived = <<3, 2>>
        /\ contentItems = f.returned /\ Len(contentItems) > 2 * perPage

\* A fetch one of whose requests for a page 2..N has failed.
PageFailed(f) == f.failed \cap (2..f.totalPages) # {}

\* C10: when a request for one of the pages 2..N fails, the fetch fails as
\* a whole: it returns no items, and the step that handles the failure (or
\* a later response of that fetch) leaves the displayed list as it was, so
\* no partial list is stored.
C10_AllOrNothing ==
    [][\A f \in BagToSet(fetches') :
          (PageFailed(f) /\ f \notin AllFetches) =>
              /\ f.pc = "done" /\ f.outcome = "error"
              /\ f.returned = <<>>
              /\ contentItems' = contentItems]_vars

\* Page 1 answered with a full page, page 2 failed: the load ended with an
\* error and an empty list.
C10_Witness ==
    \E f \in AllFetches :
        /\ PageFailed(f) /\ 2 \in f.failed /\ ~f.isRefresh
        /\ Len(f.allItems) = perPage
        /\ f.pc = "done" /\ f.outcome = "error"
        /\ contentItems = <<>> /\ error # <<>> /\ ~isLoading

\* The first response said there is one page at most: it reported a total
\* of 0 or 1 pages, or carried no pagination headers.
SinglePage(f) ==
    \/ f.headers = "missing"
    \/ f.headers = "present" /\ Total <= perPage

\* C11: when the first page reports one page, or the X-WP-TotalPages header
\* is missing, the fetch returns exactly the first-page items in the order
\* received (the empty sequence when there are none) and requests no
\* other page.
C11_SinglePage ==
    \A f \in AllFetches :
        SinglePage(f) =>
            /\ f.pc = "done" /\ f.outcome = "ok"
            /\ f.returned = PageItems(1)
            /\ f.requested = <<1>> /\ f.pending = {} /\ f.results = <<>>
            /\ Total = 0 => f.returned = <<>>

\* A source with more than one page of items answered without the
\* pagination headers: the list shows the first page only.
C11_Witness ==
    \E f \in AllFetches :
        /\ f.headers = "missing" /\ Total > perPage
        /\ f.pc = "done" /\ f.requested = <<1>>
        /\ contentItems = PageItems(1) /\ Len(contentItems) = perPage

\* ---- term resolution
\* Two embedded terms that findOrCreateTerm treats as the same destination
\* term: same slug, same destination collection.
SameTerm(a, b) ==
    a.slug = b.slug /\ TaxonomyEndpoint(a) = TaxonomyEndpoint(b)

\* Ids of the destination terms with the slug and kind of `term`.
Matches(term) ==
    {i \in 1..Len(destTerms) :
        /\ destTerms[i].slug = term.slug
        /\ destTerms[i].endpoint = TaxonomyEndpoint(term)}

\* The term whose resolution log entry i of task t belongs to: terms are
\* resolved in order, one lookup each.
TermOfEntry(t, i) ==
    t.content.terms[Cardinality({j \in CallsAt(t, {"lookup"}) : j <= i})]

\* Destination terms like `term` that the transfers so far have created.
CreatedFor(term) ==
    SumOver(AllTasks,
            [t \in AllTasks |->
                CopiesIn(t, tasks) *
                Cardinality({i \in RetsAt(t, {"createTerm"}, {"ok"}) :
                                 SameTerm(TermOfEntry(t, i), term)})])

\* C12: successive resolutions of the same slug and kind against a
\* destination that had no such term create exactly one destination term,
\* and every later resolution returns the id the first one returned.
C12_ResolveTwiceCreatesOnce ==
    \A t1 \in AllTasks, t2 \in AllTasks :
        \A k1 \in 1..Len(t1.resolved), k2 \in 1..Len(t2.resolved) :
            LET term == t1.content.terms[k1] IN
            (/\ SameTerm(t2.content.terms[k2], term)
             /\ Cardinality(Matches(term)) = CreatedFor(term)) =>
                /\ CreatedFor(term) = 1
                /\ t1.resolved[k1] = t2.resolved[k2]

\* A first transfer created category "a" and failed later; the retry found
\* the term by its lookup and created nothing.
C12_Witness ==
    \E t1 \in AllTasks, t2 \in AllTasks :
        /\ t1.outcome = "error" /\ t2.outcome = "success"
        /\ Len(t1.resolved) >= 1 /\ Len(t2.resolved) >= 1
        /\ SameTerm(t1.content.terms[1], t2.content.terms[1])
        /\ RetsAt(t1, {"createTerm"}, {"ok"}) # {}
        /\ CallsAt(t2, {"createTerm"}) = {}
        /\ t1.resolved[1] = t2.resolved[1]
        /\ Cardinality(Matches(t1.content.terms[1])) = 1

\* The smallest id in a non-empty set of ids: the first match a lookup lists.
FirstOf(ids) == CHOOSE i \in ids : \A j \in ids : i <= j

\* Task t2 is task t one step later.
StepOf(t, t2) ==
    /\ t2.item = t.item /\ t2.origin = t.origin
    /\ Len(t2.log) > Len(t.log) /\ IsPrefix(t.log, t2.log)

\* C13: every resolution of a term issues exactly one lookup, on the
\* collection of the term's kind; when the lookup answers, a create call
\* follows if and only if the destination has no term of that slug and
\* kind, and otherwise the resolution returns the id of the first match
\* without creating anything.
C13_LookupThenCreateIffNoMatch ==
    [][\A t \in AllTasks :
          /\ Cardinality(CallsAt(t, {"lookup"})) = t.k
          /\ Cardinality(CallsAt(t, {"createTerm"})) <= t.k
          /\ (t.pc = "lookup" /\ t \notin BagToSet(tasks')) =>
                \E t2 \in BagToSet(tasks') :
                    LET term == t.content.terms[t.k]
                        ret == t2.log[Len(t.log) + 1]
                    IN  /\ StepOf(t, t2)
                        /\ ret[1] = "ret" /\ ret[2] = "lookup"
                        /\ ret[3] = "ok" =>
                              IF Matches(term) = {}
                              THEN /\ t2.pc = "createTerm"
                                   /\ t2.k = t.k
                                   /\ t2.resolved = t.resolved
                              ELSE /\ t2.resolved
                                        = Append(t.resolved,
                                                 FirstOf(Matches(term)))
                                   /\ Cardinality(CallsAt(t2, {"createTerm"}))
                                        = Cardinality(CallsAt(t, {"createTerm"}))
                        /\ ret[3] # "ok" =>
                              /\ t2.outcome = "error"
                              /\ CallsAt(t2, {"createTerm"})
                                   = CallsAt(t, {"createTerm"})]_vars

\* One transfer resolved a tag by creating it, a category by taking the
\* first of two matches, and another category by creating it.
C13_Witness ==
    \E t \in AllTasks :
        /\ Len(t.content.terms) = 3 /\ t.resolved = <<4, 2, 5>>
        /\ Cardinality(Matches(t.content.terms[2])) = 2
        /\ Cardinality(CallsAt(t, {"lookup"})) = 3
        /\ Cardinality(CallsAt(t, {"createTerm"})) = 2

\* ---- transfers side by side
\* C14: at most one item transfer is in flight in any reachable state, also
\* when single or editor exports are started while a batch is running.
C14_OneTransferAtATime ==
    SumOver(InFlight, [t \in InFlight |-> CopiesIn(t, tasks)]) <= 1

\* Task t is between the lookup and the create of one of its terms.
ResolvingTerm(t) == t.pc \in {"lookup", "createTerm"}

\* C15: the transfers never hold two resolutions of the same slug and kind
\* open at once, and never leave two destination terms of the same slug
\* and kind that they created.
C15_NoTermRace ==
    /\ \A t1 \in InFlight, t2 \in InFlight :
          (ResolvingTerm(t1) /\ ResolvingTerm(t2)
             /\ SameTerm(t1.content.terms[t1.k], t2.content.terms[t2.k])) =>
                 t1 = t2 /\ CopiesIn(t1, tasks) = 1
    /\ \A i \in 1..Len(destTerms), j \in 1..Len(destTerms) :
          (destTerms[i].slug = destTerms[j].slug
             /\ destTerms[i].endpoint = destTerms[j].endpoint) => i = j

\* ---- one rejected creation in a batch
\* The batch has ended and no other transfer was started beside it.
BatchAlone ==
    /\ ~bulk.active /\ bulk.queue # <<>>
    /\ Len(bulk.results) = Len(bulk.queue)
    /\ nStarted = Len(bulk.queue)

\* Positions of the batch whose transfer ended on a creation call that the
\* destination rejected with a message.
CreationRejected ==
    {k \in 1..Len(bulk.results) :
        bulk.results[k].last = <<"ret", "create", "http">>}

ErrorsShown ==
    {i \in DOMAIN itemStatuses : itemStatuses[i].status = "error"}

\* C16: in a batch in which exactly one item's creation call was rejected
\* with a server message and every other item succeeded, the other items
\* end in success, the failing item ends in error with a message that
\* carries the server's message, and the status map has exactly one error.
C16_OneRejectedCreation ==
    (/\ BatchAlone
     /\ Cardinality(CreationRejected) = 1
     /\ \A k \in 1..Len(bulk.results) \ CreationRejected :
           bulk.results[k].outcome = "success") =>
        /\ \A k \in 1..Len(bulk.results) :
              LET st == StatusOf(bulk.results[k].item) IN
              IF k \in CreationRejected
              THEN /\ st.status = "error"
                   /\ st.message[Len(st.message)] = "server message"
              ELSE st = Success
        /\ Cardinality(ErrorsShown) = 1

\* A batch of two: the first item's creation was rejected, the second
\* item was transferred.
C16_Witness ==
    /\ BatchAlone /\ Len(bulk.queue) = 2
    /\ CreationRejected = {1}
    /\ bulk.results[2].outcome = "success"
    /\ StatusOf(bulk.queue[1]).status = "error"
    /\ StatusOf(bulk.queue[2]) = Success

\* ---- stage prefixes
\* The prefix that names the stage a call belongs to.
StagePrefix(call, ctype) ==
    IF call \in MediaCalls THEN "Media transfer failed: "
    ELSE IF call \in TermCalls THEN "Taxonomy (category/tag) transfer failed: "
    ELSE IF ctype = Posts THEN "post creation failed: "
    ELSE "page creation failed: "

\* Log positions of the failed calls of transferContent in task t.
TransferFailures(t) == RetsAt(t, MediaCalls \cup TermCalls \cup {"create"}, Failures)

\* C17: a transfer that failed in transferContent carries the prefix of the
\* stage of its first failed call: media, taxonomy or creation.
C17_StagePrefix ==
    \A t \in AllTasks :
        TransferFailures(t) # {} =>
            LET first == FirstOf(TransferFailures(t)) IN
            /\ t.pc = "done" /\ t.outcome = "error"
            /\ Len(t.message) >= 2
            /\ t.message[1] = StagePrefix(t.log[first][2], t.ctype)

\* All three stages have been seen failing: across the attempts the media
\* stage passed and the taxonomy stage failed, and a creation failed.
C17_Witness ==
    /\ \E t \in AllTasks :
          /\ RetsAt(t, {"upload"}, {"ok"}) # {}
          /\ RetsAt(t, TermCalls, Failures) # {}
          /\ t.message[1] = "Taxonomy (category/tag) transfer failed: "
    /\ \E t \in AllTasks :
          /\ RetsAt(t, {"create"}, Failures) # {}
          /\ t.message[1] = "post creation failed: "

\* ---- connection validation
\* The submission has ended in a failure.
ValidationFailed == connector.pc = "idle" /\ connector.outcome = "error"

\* C18: when the REST root answers 2xx and the users/me check answers 401
\* or 403, validation fails with the authentication message, whatever the
\* body of that response says.
C18_AuthenticationMessage ==
    (/\ connector.pc = "idle" /\ Len(connector.rets) = 2
     /\ Ok(connector.rets[1])
     /\ connector.rets[2].kind = "http"
     /\ connector.rets[2].status \in {401, 403}) =>
        /\ connector.outcome = "error"
        /\ connector.error.text =
             <<"Authentication failed. Please check your username and Application Password.">>
        /\ connector.error.status = 0
        /\ connector.config = <<>>

\* A 403 whose body carries a server message was reported as an
\* authentication failure.
C18_Witness ==
    /\ ValidationFailed /\ Len(connector.rets) = 2
    /\ connector.rets[2].status = 403
    /\ connector.rets[2].body \in ServerMessages
    /\ connector.error = AuthenticationFailed

\* C19: the validation steps are gates in order. The first request goes to
\* the REST root without the credential; the users/me request, with the
\* credential, is sent only after the root answered 2xx; a root response
\* that is not 2xx fails the validation with the unreachable-API message
\* quoting its status; validation succeeds only when both answered 2xx.
C19_ValidationGates ==
    /\ Len(connector.calls) <= 2
    /\ Len(connector.calls) >= 1 =>
          connector.calls[1] = [endpoint |-> "wp-json/", authorization |-> FALSE]
    /\ Len(connector.calls) = 2 =>
          /\ connector.calls[2]
               = [endpoint |-> "wp/v2/users/me", authorization |-> TRUE]
          /\ Len(connector.rets) >= 1
          /\ connector.rets[1].kind = "http"
          /\ connector.rets[1].status \in 200..299
    /\ (/\ Len(connector.rets) >= 1
        /\ connector.rets[1].kind = "http"
        /\ connector.rets[1].status \notin 200..299) =>
          /\ ValidationFailed
          /\ Len(connector.calls) = 1
          /\ connector.error.text =
               <<"Cannot reach the WordPress REST API endpoint. Please check the URL. (Status: ">>
          /\ connector.error.status = connector.rets[1].status
    /\ connector.outcome = "ok" =>
          /\ Len(connector.rets) = 2
          /\ \A k \in 1..2 : /\ connector.rets[k].kind = "http"
                             /\ connector.rets[k].status \in 200..299

\* The root answered 404: validation failed on the first gate, the
\* credential was never sent.
C19_Witness ==
    /\ ValidationFailed
    /\ Len(connector.rets) = 1 /\ connector.rets[1].status = 404
    /\ Len(connector.calls) = 1 /\ ~connector.calls[1].authorization
    /\ connector.error.status = 404

\* C20: a validation that ended on a request without a response reports
\* the network error and not the authentication failure; a validation
\* that ended on a response does not report the network error.
C20_NetworkClassification ==
    ValidationFailed =>
        LET last == connector.rets[Len(connector.rets)] IN
        IF last.kind = "net"
        THEN /\ connector.error.text
                  = <<"Network error: Could not connect to the URL.">>
        ELSE connector.error.text
                  # <<"Network error: Could not connect to the URL.">>

\* ---- the end of a batch
TerminalStatuses == {"success", "error"}

\* Every item of the submitted selection shows success or error.
SelectionTerminal ==
    \A i \in Range(bulk.queue) : StatusOf(i).status \in TerminalStatuses

BatchFinished ==
    /\ ~isBulkExporting /\ selectedItemIds = <<>> /\ SelectionTerminal

\* C21: a submitted batch eventually finishes with every selected item in
\* success or error, the bulk-exporting flag reset and the selection
\* cleared; and the step that resets the flag, which is the one that clears
\* the selection, is taken only with every selected item terminal.
C21_BatchFinishes ==
    /\ isBulkExporting ~> BatchFinished
    /\ [][(isBulkExporting /\ ~isBulkExporting') =>
             (SelectionTerminal' /\ selectedItemIds' = <<>>)]_vars

\* The loop of every submitted batch comes to its end.
BatchLoopEnds == bulk.active ~> (~bulk.active /\ ~isBulkExporting)

\* ---- pages
Fields(payload) == IF payload = <<>> THEN {} ELSE DOMAIN payload

\* C22: a transfer of content type pages issues no term lookup and no term
\* creation call, and neither its payload nor the page the destination
\* stores carries categories, tags or a parent, whatever terms and parent
\* the page has.
C22_PagesSkipTaxonomy ==
    /\ \A t \in AllTasks :
           t.ctype = Pages =>
               /\ CallsAt(t, TermCalls) = {}
               /\ Fields(t.payload) \cap {"categories", "tags", "parent"} = {}
    /\ \A c \in BagToSet(destContent) :
           c.type = Pages =>
               Fields(c.body) \cap {"categories", "tags", "parent"} = {}

\* A page with embedded terms and a parent was created on the destination.
C22_Witness ==
    \E t \in AllTasks :
        /\ t.ctype = Pages /\ t.outcome = "success"
        /\ t.content.terms # <<>> /\ t.content.parent
        /\ \E c \in BagToSet(destContent) : c.type = Pages /\ c.body = t.payload

\* ---- the creation payload
\* The ids the resolver returned to task t for its terms of the given kind
\* (endpoint), in term order.
ResolvedOfKind(t, endpoint) ==
    LET idx == SelectSeq2([i \in 1..Len(t.resolved) |-> i],
                          {i \in 1..Len(t.resolved) :
                               TaxonomyEndpoint(t.content.terms[i]) = endpoint})
    IN  [j \in 1..Len(idx) |-> t.resolved[idx[j]]]

\* Tasks whose upload was accepted.
Uploaders == {t \in AllTasks : RetsAt(t, {"upload"}, {"ok"}) # {}}

\* C23: the payload of a creation call has the item's title, content and
\* status; featured_media exactly when the transfer's upload succeeded, and
\* then the id of a media object of its own on the destination; categories
\* (tags) exactly when at least one category (tag) term was resolved, and
\* then the ids the resolver returned for the item's terms of that kind,
\* each naming a destination term of the term's slug and kind; and nothing
\* else. What the destination stores is the payload of an accepted call.
C23_Payload ==
    /\ \A t \in AllTasks :
           CallsAt(t, {"create"}) # {} =>
               LET p == t.payload
                   item == source[t.item]
                   cats == ResolvedOfKind(t, "categories")
                   tags == ResolvedOfKind(t, "tags")
               IN  /\ {"title", "content", "status"} \subseteq DOMAIN p
                   /\ DOMAIN p \subseteq {"title", "content", "status",
                                          "featured_media", "categories", "tags"}
                   /\ p.title = item.id /\ p.content = item.id
                   /\ p.status = item.status
                   /\ "featured_media" \in DOMAIN p <=> t \in Uploaders
                   /\ "categories" \in DOMAIN p <=> cats # <<>>
                   /\ "tags" \in DOMAIN p <=> tags # <<>>
                   /\ "categories" \in DOMAIN p => p.categories = cats
                   /\ "tags" \in DOMAIN p => p.tags = tags
                   /\ \A i \in 1..Len(t.resolved) :
                          t.resolved[i] \in Matches(t.content.terms[i])
    /\ \A t \in Uploaders :
           /\ CopiesIn(t, tasks) = 1
           /\ t.payload.featured_media \in 1..destMedia
           /\ \A u \in Uploaders \ {t} :
                  u.payload.featured_media # t.payload.featured_media
    /\ \A c \in BagToSet(destContent) :
           \E t \in AllTasks :
               /\ RetsAt(t, {"create"}, {"ok"}) # {}
               /\ c = [type |-> t.ctype, body |-> t.payload]

\* A post with media, two categories and a tag was created by a retry after
\* an attempt that had uploaded its image already.
C23_Witness ==
    \E t \in AllTasks :
        /\ RetsAt(t, {"create"}, {"ok"}) # {}
        /\ {"featured_media", "categories", "tags"} \subseteq DOMAIN t.payload
        /\ t.payload.featured_media = 2
        /\ Len(t.payload.categories) = 2

\* A draft with one tag and no category was created as a draft.
C23_WitnessDraft ==
    \E t \in AllTasks :
        /\ RetsAt(t, {"create"}, {"ok"}) # {}
        /\ t.payload.status = "draft"
        /\ DOMAIN t.payload = {"title", "content", "status", "tags"}

\* ---- transport errors
\* C24: for a non-2xx response the error message is the body's message when
\* the body is JSON with a non-empty message, and "HTTP error! status:
\* <code>" when the body is not JSON or has no message.
C24_TransportMessage ==
    (request.pc = "thrown" /\ request.resp.kind = "http") =>
        request.message =
            IF request.resp.body \in ServerMessages
            THEN Message(<<request.resp.body>>, 0)
            ELSE HttpError(request.resp.status)

\* The part that holds: a JSON body's message is passed on, and a JSON body
\* with no message or an empty one gives the status text.
TransportMessageOfJson ==
    (request.pc = "thrown" /\ request.resp.kind = "http"
        /\ request.resp.body # NotJson) =>
        request.message =
            IF request.resp.body \in ServerMessages
            THEN Message(<<request.resp.body>>, 0)
            ELSE HttpError(request.resp.status)

\* ---- progress reports
FirstReport(f) == [loaded |-> Len(PageItems(1)), total |-> f.totalItems]

\* C25: a fetch reports progress once when totalPages <= 1, with the number
\* of page-1 items and the X-WP-Total value, and twice when totalPages > 1
\* and every page succeeded, the second report counting the items returned;
\* while the remaining pages are outstanding, and after one of them failed,
\* the first report is the only one.
C25_ProgressReports ==
    \A f \in AllFetches :
        /\ f.pc = "page1" => f.reports = <<>>
        /\ f.headers # "none" =>
               f.totalItems = (IF f.headers = "present" THEN Total ELSE 0)
        /\ (f.outcome = "ok" /\ f.totalPages <= 1) =>
               f.reports = <<FirstReport(f)>>
        /\ (f.outcome = "ok" /\ f.totalPages > 1) =>
               f.reports = <<FirstReport(f),
                             [loaded |-> Len(f.returned), total |-> f.totalItems]>>
        /\ (f.pc = "pages" \/ f.failed # {}) => f.reports = <<FirstReport(f)>>

\* A fetch over several pages has made its two reports.
C25_Witness ==
    \E f \in AllFetches :
        /\ f.outcome = "ok" /\ f.totalPages > 2 /\ Len(f.reports) = 2
        /\ f.reports[1].loaded = perPage
        /\ f.reports[2].loaded = Total

\* A fetch whose page 3 failed has made the first report only.
C25_WitnessFailed ==
    \E f \in AllFetches : 3 \in f.failed /\ Len(f.reports) = 1

\* ---- a failed first page
\* C26: a fetch whose first-page request failed has failed with it: it made
\* no progress report, requested no other page, waits for none and returned
\* no items, and the list on the page is what it was (empty after a load).
C26_FirstPageFailure ==
    \A f \in AllFetches :
        f.first \in Failures =>
            /\ f.pc = "done" /\ f.outcome = "error"
            /\ f.reports = <<>>
            /\ f.requested = <<1>> /\ f.pending = {}
            /\ f.returned = <<>> /\ f.allItems = <<>>
            /\ ~f.isRefresh => contentItems = <<>>

\* The first page of a collection of several pages was refused.
C26_Witness ==
    \E f \in AllFetches : f.first = "http" /\ Total > perPage /\ error # <<>>

\* ---- activating a connection
\* A step that makes a connection the active one.
Activates == connector.config' # connector.config /\ connector.config' # <<>>

\* A step in which a validateConnection call for the connection succeeds.
ValidationSucceeds ==
    /\ connector.pc = "auth" /\ connector.outcome' = "ok"
    /\ Len(connector.rets') = 2
    /\ Ok(connector.rets'[1]) /\ Ok(connector.rets'[2])

\* C27: a connection becomes the active one only by a validateConnection
\* call for it succeeding, whichever way it is activated; a failed
\* validation leaves the active connection as it is.
C27_ValidatedBeforeActive ==
    [][/\ Activates => ValidationSucceeds
       /\ (connector.pc # "idle" /\ connector.outcome' = "error") =>
              connector.config' = connector.config]_vars

\* The form's own path: a submission activates a connection only by a
\* successful validation, and a failed one activates nothing.
SubmitValidates ==
    [][/\ (Activates /\ connector.pc # "idle") => ValidationSucceeds
       /\ (connector.pc # "idle" /\ connector.outcome' = "error") =>
              connector.config' = connector.config]_vars

\* ---- the two connections
DestinationCalls == {"upload", "lookup", "createTerm", "create"}
SourceCalls == {"details", "download"}

ByDestination(q) ==
    /\ q.site = "destination"
    /\ q.authorization = "destination" /\ q.proxy = "destination"

BySource(q) ==
    /\ q.site = "source"
    /\ q.authorization \in {"source", "none"} /\ q.proxy = "source"

\* C28: every request of a transfer to the destination (upload, term
\* lookup, term creation, content creation) carries the destination's
\* credential and goes through the destination's proxy; every request to
\* the source (list pages, item details, image download) goes through the
\* source's proxy and carries no credential but the source's.
C28_ConnectionsNotMixed ==
    /\ \A t \in AllTasks :
           \A i \in CallsAt(t, DestinationCalls \cup SourceCalls) :
               IF t.log[i][2] \in DestinationCalls
               THEN ByDestination(t.log[i][3])
               ELSE BySource(t.log[i][3])
    /\ \A f \in AllFetches :
           /\ Len(f.sent) = Len(f.requested)
           /\ \A k \in 1..Len(f.sent) : BySource(f.sent[k])

\* Both pages were listed and a transfer made all its six kinds of call.
C28_Witness ==
    /\ \E f \in AllFetches : Len(f.sent) = 2
    /\ \E t \in AllTasks :
           \A c \in DestinationCalls \cup SourceCalls : CallsAt(t, {c}) # {}

\* ---- the media transfer
\* C29: an upload is issued only right after the transfer's download
\* returned 2xx; a transfer whose download failed, at network level or with
\* a non-2xx status, has sent no upload; the destination holds exactly one
\* media object per successful upload, also when the same image was
\* uploaded by an earlier transfer.
C29_UploadAfterDownload ==
    /\ \A t \in AllTasks :
           /\ \A j \in CallsAt(t, {"upload"}) :
                  j - 1 \in RetsAt(t, {"download"}, {"ok"})
           /\ RetsAt(t, {"download"}, Failures) # {} =>
                  /\ CallsAt(t, {"upload"}) = {}
                  /\ "featured_media" \notin Fields(t.payload)
           /\ Cardinality(CallsAt(t, {"upload"})) <= 1
    /\ destMedia = UploadsDone
    /\ destMedia = Cardinality(Uploaders)

\* The image of the item was uploaded by a transfer that failed later and
\* again by its retry: two media objects.
C29_Witness ==
    /\ destMedia = 2
    /\ Cardinality(Uploaders) = 2
    /\ \A t \in Uploaders : t.content = source[1]

\* The retry's download failed: the first transfer's media object is the
\* only one.
C29_WitnessFailed ==
    /\ destMedia = 1
    /\ \E t \in AllTasks : RetsAt(t, {"download"}, Failures) # {}

\* ---- what success means
\* Task t is awaiting its only creation call, issued after all its media
\* and term calls had returned 2xx.
CreationPending(t) ==
    /\ t.pc = "create"
    /\ Cardinality(CallsAt(t, {"create"})) = 1
    /\ RetsAt(t, MediaCalls \cup TermCalls, Failures) = {}
    /\ Cardinality(RetsAt(t, MediaCalls \cup TermCalls, {"ok"}))
           = Cardinality(CallsAt(t, MediaCalls \cup TermCalls))
    /\ \A j \in CallsAt(t, {"create"}) :
           \A k \in CallsAt(t, MediaCalls \cup TermCalls) : k < j

\* In this step the destination accepts the creation call of task t.
Accepted(t) ==
    /\ CopiesIn(t, tasks') < CopiesIn(t, tasks)
    /\ destContent' = destContent (+) SetToBag({[type |-> t.ctype,
                                                  body |-> t.payload]})

BecomesSuccess(i) ==
    StatusOf(i).status # "success" /\ StatusOf(i)'.status = "success"

\* C30: an item's status becomes success only when the destination accepts
\* the one creation call of the item's latest export, issued after every
\* media and term call of that export had succeeded.
C30_SuccessMeansCreated ==
    [][\A i \in DOMAIN source :
          BecomesSuccess(i) =>
              \E t \in InFlight :
                  /\ t.item = i /\ ~t.superseded
                  /\ CreationPending(t) /\ Accepted(t)]_vars

\* The same of some export of the item, the latest or not.
SuccessBySomeExport ==
    [][\A i \in DOMAIN source :
          BecomesSuccess(i) =>
              \E t \in InFlight :
                  /\ t.item = i
                  /\ CreationPending(t) /\ Accepted(t)]_vars

\* ---- the end of an export
\* C31: every item whose status is exporting eventually shows success or
\* error, whichever handler started the export.
C31_ExportingEnds ==
    \A i \in Items :
        (StatusOf(i).status = "exporting")
            ~> (StatusOf(i).status \in TerminalStatuses)

\* ---- outdated fetches
\* Fetch f settles in this step.
Settles(f) == f.pc # "done" /\ CopiesIn(f, fetches') < CopiesIn(f, fetches)

\* A load for the selected content type is outstanding.
CurrentLoadInFlight ==
    \E f \in AllFetches :
        f.pc # "done" /\ ~f.isRefresh /\ f.type = contentType

\* C32: the displayed list is replaced only by the result of a fetch for
\* the content type that is selected, never by a late response of an
\* outdated fetch, and the loading indicator stays on while the load for
\* the selected content type is outstanding.
C32_NoStaleFetch ==
    [][/\ (contentItems' # contentItems /\ contentItems' # <<>>) =>
              \E f \in AllFetches : Settles(f) /\ f.type = contentType
       /\ CurrentLoadInFlight' => isLoading']_vars

\* ---- a failed details request
\* Task t2 is what a task has become in this step.
NewIn(t2) == CopiesIn(t2, tasks') > CopiesIn(t2, tasks)

\* C33: when the details request of an export fails, the export ends there:
\* the details call is its only call, nothing on the destination changes,
\* and the item's status becomes error with the message of that failure.
C33_DetailsFailure ==
    [][\A t \in InFlight :
          (t.pc = "details" /\ CopiesIn(t, tasks') < CopiesIn(t, tasks)) =>
              \E t2 \in BagToSet(tasks') :
                  /\ NewIn(t2) /\ StepOf(t, t2)
                  /\ LET ret == t2.log[Len(t.log) + 1] IN
                     ret[3] \in Failures =>
                         /\ t2.pc = "done" /\ t2.outcome = "error"
                         /\ Len(t2.log) = 2
                         /\ CallsAt(t2, DestinationCalls) = {}
                         /\ t2.message = ApiFetchError(ret[3])
                         /\ StatusOf(t.item)' = Failed(ApiFetchError(ret[3]))
                         /\ siteVars' = siteVars]_vars

\* The details request of a retry got no response: the item shows the
\* browser's message, and the destination has what the first try left.
C33_Witness ==
    /\ StatusOf(1) = Failed(<<"Failed to fetch">>)
    /\ \E t \in AllTasks : RetsAt(t, {"details"}, {"net"}) # {}
    /\ destMedia = 1

\* ---- the order of the returned items
RECURSIVE PagesInOrder(_)
\* The bodies of pages 1..n one after the other.
PagesInOrder(n) == IF n = 0 THEN <<>> ELSE PagesInOrder(n - 1) \o PageItems(n)

\* C34: a fetch whose pages all succeeded returns the items of page 1
\* followed by those of pages 2..N in page-number order, in whatever order
\* the responses arrived.
C34_PageOrder ==
    \A f \in AllFetches :
        f.outcome = "ok" =>
            /\ f.returned = PagesInOrder(f.totalPages)
            /\ f.totalPages > 1 => Range(f.arrived) = 2..f.totalPages

\* Page 3 answered before page 2 and the items are in page order.
C34_Witness ==
    \E f \in AllFetches :
        /\ f.outcome = "ok" /\ f.totalPages = 3 /\ f.arrived = <<3, 2>>
        /\ f.returned[perPage + 1] = perPage + 1

\* ---- exports and reloads
\* C35: a reload for another content type clears the status map and the
\* selection, and an export that was started before the reload does not
\* write its terminal status into the new map.
C35_ReloadClearsStatuses ==
    [][/\ contentType' # contentType =>
              itemStatuses' = <<>> /\ selectedItemIds' = <<>>
       /\ \A t \in InFlight :
              (t.outdated /\ CopiesIn(t, tasks') < CopiesIn(t, tasks)) =>
                  StatusOf(t.item)' = StatusOf(t.item)]_vars

\* The reload itself: it clears the status map and the selection.
ReloadClears ==
    [][contentType' # contentType =>
           itemStatuses' = <<>> /\ selectedItemIds' = <<>>]_vars

\* ---- the refresh
\* A step of a refresh: the button's click, or a response its fetch reads.
RefreshStep ==
    \/ ~isRefreshing /\ isRefreshing'
    \/ \E f \in AllFetches : f.isRefresh /\ Settles(f)

\* The refresh ends in this step, and with a rejected fetch.
RefreshEnds == isRefreshing /\ ~isRefreshing'
RefreshFails ==
    /\ RefreshEnds
    /\ \E f2 \in BagToSet(fetches') :
           /\ f2.isRefresh /\ f2.pc = "done" /\ f2.outcome = "error"
           /\ CopiesIn(f2, fetches') > CopiesIn(f2, fetches)

\* C36: a refresh leaves the status map unchanged; when its fetch fails the
\* loaded list stays as it was and the error message is set; the selection
\* is empty when the refresh has ended, with or without success.
C36_RefreshFrame ==
    [][/\ RefreshStep => itemStatuses' = itemStatuses
       /\ RefreshFails => contentItems' = contentItems /\ error' # <<>>
       /\ RefreshEnds => selectedItemIds' = <<>>]_vars

\* A refresh of a loaded list with a status has failed; another has ended
\* with the new list.
C36_Witness ==
    /\ \E f \in BagToSet(fetches) :
           f.isRefresh /\ f.pc = "done" /\ f.outcome = "error"
    /\ ~isRefreshing /\ contentItems # <<>> /\ error # <<>>
    /\ itemStatuses # <<>> /\ selectedItemIds = <<>>

\* A refresh is running on a list with a selected row and a status.
RefreshWithSelection ==
    isRefreshing /\ selectedItemIds # <<>> /\ itemStatuses # <<>>

\* ---- one batch at a time
\* handleBulkExport starts its loop in this step.
BatchStarts == bulk' # bulk /\ bulk'.active /\ bulk'.results = <<>>

\* C37: a batch starts only when no batch is in progress, with a non-empty
\* selection and with both connections set.
C37_OneBatch ==
    [][BatchStarts =>
           /\ ~bulk.active /\ ~isBulkExporting
           /\ selectedItemIds # <<>>
           /\ sourceConfig # null /\ destConfig # null]_vars

\* A batch has started after an earlier batch has ended.
C37_Witness ==
    bulk.active /\ bulk.idx = 1 /\ bulk.results = <<>> /\ nStarted >= 2

\* A batch is running while rows are selected.
BatchWithSelection == bulk.active /\ isBulkExporting /\ selectedItemIds # <<>>

\* ---- select all
\* C38: "Select all" clears the selection when every visible item is
\* selected, and otherwise makes the selection the visible items; the only
\* steps of SpecSelect that change the selection are those of "Select all".
C38_SelectAll ==
    [][selectedItemIds' # selectedItemIds =>
           selectedItemIds' =
               IF Range(filteredContent) \subseteq Range(selectedItemIds)
               THEN <<>>
               ELSE filteredContent]_vars

\* What the checkbox does: it compares the two sizes.
SelectAllBySize ==
    [][selectedItemIds' # selectedItemIds =>
           selectedItemIds' =
               IF Len(selectedItemIds) = Len(filteredContent)
               THEN <<>>
               ELSE filteredContent]_vars

\* Without a search term the two agree.
SelectAllUnfiltered ==
    [][(selectedItemIds' # selectedItemIds /\ searchTerm = <<>>) =>
           selectedItemIds' =
               IF Range(filteredContent) \subseteq Range(selectedItemIds)
               THEN <<>>
               ELSE filteredContent]_vars

\* ---- connection histories
\* The entry of the connected site, while the history has one, is first.
ConnectedFirst(history, config) ==
    (config # null /\ \E k \in DOMAIN history :
                         SameConnection(history[k], config.url,
                                        config.username))
        => history[1] = SavedItem(config)

HistoryKept(history, config) ==
    /\ Len(history) <= HistoryLimit
    /\ \A j, k \in DOMAIN history :
           SameConnection(history[j], history[k].url, history[k].username)
               => j = k
    /\ ConnectedFirst(history, config)

HistoryOrder ==
    [][/\ (sourceConfig' # sourceConfig /\ sourceConfig' # null) =>
              /\ sourceHistory'[1] = SavedItem(sourceConfig')
              /\ \A j, k \in 2..Len(sourceHistory') :
                     j < k => \E m, n \in DOMAIN sourceHistory :
                                 /\ m < n
                                 /\ sourceHistory[m] = sourceHistory'[j]
                                 /\ sourceHistory[n] = sourceHistory'[k]
       /\ Len(sourceHistory') < Len(sourceHistory) =>
              \A j, k \in DOMAIN sourceHistory' :
                  j < k => \E m, n \in DOMAIN sourceHistory :
                              /\ m < n
                              /\ sourceHistory[m] = sourceHistory'[j]
                              /\ sourceHistory[n] = sourceHistory'[k]]_vars

====
